---------------------------- MODULE Spec2Model ----------------------------
(***************************************************************************)
(* Model of the ez80-chess state core: the position model (board.c), the  *)
(* position text codec (fen.c) and the move codec (move.h, move.c).       *)
(*                                                                         *)
(* Characters are their ASCII codes, a text is the sequence of its codes   *)
(* without the terminator (reading one past the end yields 0), and every   *)
(* C integer keeps its width.                                              *)
(***************************************************************************)
EXTENDS Integers, Sequences, FiniteSets, TLC

VARIABLES board, lastKing, op

vars == <<board, lastKing, op>>

(***************************************************************************)
(* Characters and texts                                                    *)
(***************************************************************************)
Printable ==
    <<" ", "!", "dquote", "#", "$", "%", "&", "'", "(", ")", "*", "+", ",", "-", ".", "/",
      "0", "1", "2", "3", "4", "5", "6", "7", "8", "9", ":", ";", "<", "=", ">", "?",
      "@", "A", "B", "C", "D", "E", "F", "G", "H", "I", "J", "K", "L", "M", "N", "O",
      "P", "Q", "R", "S", "T", "U", "V", "W", "X", "Y", "Z", "[", "backslash", "]", "^", "_",
      "backtick", "a", "b", "c", "d", "e", "f", "g", "h", "i", "j", "k", "l", "m", "n", "o",
      "p", "q", "r", "s", "t", "u", "v", "w", "x", "y", "z", "{", "|", "}", "~">>

\* The ASCII code of a one-character string.
Ord(c) == 31 + (CHOOSE i \in 1..Len(Printable) : Printable[i] = c)

\* The sequence s with every element evaluated (a tuple, not a rule).
Concrete(s) == SubSeq(s, 1, Len(s))

\* The text whose characters are the one-character strings of t.
Str(t) == Concrete([i \in 1..Len(t) |-> Ord(t[i])])

\* A null pointer passed where a text is expected.
NULL == <<0 - 1>>

\* The byte at 1-based position i of a terminated text s.
At(s, i) == IF i <= Len(s) THEN s[i] ELSE 0

\* The characters the code names.
CH_0     == Ord("0")
CH_1     == Ord("1")
CH_8     == Ord("8")
CH_9     == Ord("9")
CH_A     == Ord("A")
CH_B     == Ord("B")
CH_DASH  == Ord("-")
CH_DOT   == Ord(".")
CH_K     == Ord("K")
CH_N     == Ord("N")
CH_PLUS  == Ord("+")
CH_Q     == Ord("Q")
CH_R     == Ord("R")
CH_SLASH == Ord("/")
CH_SPACE == Ord(" ")
CH_Z     == Ord("Z")
CH_a     == Ord("a")
CH_b     == Ord("b")
CH_h     == Ord("h")
CH_k     == Ord("k")
CH_n     == Ord("n")
CH_p     == Ord("p")
CH_q     == Ord("q")
CH_r     == Ord("r")
CH_w     == Ord("w")
CH_x     == Ord("x")
CH_z     == Ord("z")

\* The character classes of ctype.h
islower(c) == c >= CH_a /\ c <= CH_z
isupper(c) == c >= CH_A /\ c <= CH_Z
tolower(c) == IF isupper(c) THEN c + 32 ELSE c
toupper(c) == IF islower(c) THEN c - 32 ELSE c
isspace(c) == c = 32 \/ (c >= 9 /\ c <= 13)
isdigit(c) == c >= CH_0 /\ c <= CH_9

CH_NUL   == 0

(***************************************************************************)
(* Fixed-width integers                                                    *)
(***************************************************************************)
ToU8(x)  == x % 256
ToU16(x) == x % 65536
ToU24(x) == x % 16777216
ToInt8(x) == LET m == x % 256 IN IF m >= 128 THEN m - 256 ELSE m

RECURSIVE BitAnd(_, _)
BitAnd(a, b) ==
    IF a = 0 \/ b = 0 THEN 0
    ELSE (a % 2) * (b % 2) + 2 * BitAnd(a \div 2, b \div 2)

RECURSIVE BitOr(_, _)
BitOr(a, b) ==
    IF a = 0 THEN b
    ELSE IF b = 0 THEN a
    ELSE (IF a % 2 = 1 \/ b % 2 = 1 THEN 1 ELSE 0) + 2 * BitOr(a \div 2, b \div 2)

(***************************************************************************)
(* board.h: types, constants and macros                                    *)
(***************************************************************************)
PIECE_WHITE == 0
PIECE_BLACK == 128

PIECE_NONE   == 0
PIECE_PAWN   == 1
PIECE_KNIGHT == 2
PIECE_BISHOP == 3
PIECE_ROOK   == 4
PIECE_QUEEN  == 5
PIECE_KING   == 6

SIDE_WHITE == 0
SIDE_BLACK == 1

BOARD_WIDTH_PHYSICAL  == 8
BOARD_HEIGHT_PHYSICAL == 8
BOARD_SIZE_LOGICAL    == 128
BOARD_RANK_SHIFT      == 4
BOARD_FILE_MASK       == 7
COLOR_MASK            == 128
PIECE_MASK            == 7

CASTLE_NONE == 0
CASTLE_WK   == 1
CASTLE_WQ   == 2
CASTLE_BK   == 4
CASTLE_BQ   == 8
CASTLE_ALL  == 15

NO_SQUARE      == 255
SQUARE_STR_LEN == 2

SQUARE_TO_FILE(square) == BitAnd(square, BOARD_FILE_MASK)
SQUARE_TO_RANK(square) == square \div (2 ^ BOARD_RANK_SHIFT)
FILE_RANK_TO_SQUARE(file, rank) == BitOr(rank * (2 ^ BOARD_RANK_SHIFT), file)

MAKE_PIECE(color, type) == BitOr(color, type)
GET_PIECE_TYPE(piece) == BitAnd(piece, PIECE_MASK)
IS_PIECE_TYPE(piece, type) == GET_PIECE_TYPE(piece) = type
GET_PIECE_COLOR(piece) == BitAnd(piece, COLOR_MASK)
IS_PIECE_COLOR(piece, color) == GET_PIECE_COLOR(piece) = color
COLOR_TO_SIDE(color) == IF color = PIECE_WHITE THEN SIDE_WHITE ELSE SIDE_BLACK

INVALID_SQUARE(sq) == BitAnd(sq, 136)
is_valid_square(square) == INVALID_SQUARE(square) = 0

square_from_file_rank(file, rank) == ToU8(FILE_RANK_TO_SQUARE(file, rank))
square_to_file(square) == SQUARE_TO_FILE(square)
square_to_rank(square) == SQUARE_TO_RANK(square)

(***************************************************************************)
(* board.c.  An array is the sequence of its elements, element i of C     *)
(* being element i + 1: squares[sq] is b.squares[sq + 1] and               *)
(* king_square[side] is b.king_square[side + 1].                           *)
(***************************************************************************)
\* memset(board, 0, sizeof(board_t)), then the two non-zero defaults
\* board_clear without the two defaults that are not zero.
board_clear_zeroed(b) ==
    [squares           |-> Concrete([i \in 1..BOARD_SIZE_LOGICAL |-> PIECE_NONE]),
     side_to_move      |-> SIDE_WHITE,
     king_square       |-> <<0, 0>>,
     castling_rights   |-> CASTLE_NONE,
     en_passant_square |-> 0,
     halfmove_clock    |-> 0,
     fullmove_number   |-> 0]

board_clear(b) ==
    [squares           |-> Concrete([i \in 1..BOARD_SIZE_LOGICAL |-> PIECE_NONE]),
     side_to_move      |-> SIDE_WHITE,
     king_square       |-> <<0, 0>>,
     castling_rights   |-> CASTLE_NONE,
     en_passant_square |-> NO_SQUARE,
     halfmove_clock    |-> 0,
     fullmove_number   |-> 1]

board_init(b) == board_clear(b)

board_has_castling_rights(b, rights) == BitAnd(b.castling_rights, rights) = rights

char_to_piece(c0) ==
    LET color == IF islower(c0) THEN PIECE_BLACK ELSE PIECE_WHITE
        c     == tolower(c0)
    IN  IF c = CH_p THEN MAKE_PIECE(color, PIECE_PAWN)
        ELSE IF c = CH_n THEN MAKE_PIECE(color, PIECE_KNIGHT)
        ELSE IF c = CH_b THEN MAKE_PIECE(color, PIECE_BISHOP)
        ELSE IF c = CH_r THEN MAKE_PIECE(color, PIECE_ROOK)
        ELSE IF c = CH_q THEN MAKE_PIECE(color, PIECE_QUEEN)
        ELSE IF c = CH_k THEN MAKE_PIECE(color, PIECE_KING)
        ELSE PIECE_NONE

piece_to_char(piece) ==
    LET t == GET_PIECE_TYPE(piece)
        c == IF t = PIECE_PAWN THEN CH_p
             ELSE IF t = PIECE_KNIGHT THEN CH_n
             ELSE IF t = PIECE_BISHOP THEN CH_b
             ELSE IF t = PIECE_ROOK THEN CH_r
             ELSE IF t = PIECE_QUEEN THEN CH_q
             ELSE IF t = PIECE_KING THEN CH_k
             ELSE CH_NUL
    IN  IF c = CH_NUL THEN CH_DOT
        ELSE IF IS_PIECE_COLOR(piece, PIECE_WHITE) THEN toupper(c) ELSE c

\* board_set_piece without the test for a king: every piece is cached.
board_set_piece_any(b, square, piece) ==
    IF ~is_valid_square(square) THEN b
    ELSE [b EXCEPT !.squares[square + 1] = piece,
                   !.king_square[COLOR_TO_SIDE(GET_PIECE_COLOR(piece)) + 1] = square]

\* board_set_piece without the test of the square: the store lands in one of
\* the 128 slots.
board_set_piece_unchecked(b, square, piece) ==
    LET b1 == [b EXCEPT !.squares[(square % 128) + 1] = piece]
    IN  IF IS_PIECE_TYPE(piece, PIECE_KING)
        THEN [b1 EXCEPT !.king_square[COLOR_TO_SIDE(GET_PIECE_COLOR(piece)) + 1] = square]
        ELSE b1

board_set_piece(b, square, piece) ==
    IF ~is_valid_square(square) THEN b
    ELSE LET b1 == [b EXCEPT !.squares[square + 1] = piece]
         IN  IF IS_PIECE_TYPE(piece, PIECE_KING)
             THEN [b1 EXCEPT !.king_square[COLOR_TO_SIDE(GET_PIECE_COLOR(piece)) + 1] = square]
             ELSE b1

board_get_piece(b, square) ==
    IF is_valid_square(square) THEN b.squares[square + 1] ELSE PIECE_NONE

board_is_empty(b, square) == board_get_piece(b, square) = PIECE_NONE

(***************************************************************************)
(* fen.c: the reader                                                       *)
(***************************************************************************)
FEN_MIN_LEN == 24

Max(a, b) == IF a >= b THEN a ELSE b

\* parser_t: ptr is the 1-based position of the cursor in the text; rd is the
\* highest position read so far (bookkeeping, not a field of the C struct).
parser_create(fen) == [ptr |-> 1, success |-> TRUE, rd |-> 0]

\* parser_expect without the test of the success flag.
parser_expect_unchecked(p, fen, expected) ==
    LET c  == At(fen, p.ptr)
        p1 == [p EXCEPT !.rd = Max(@, p.ptr)]
    IN  IF c = CH_NUL \/ c # expected
        THEN [p1 EXCEPT !.success = FALSE]
        ELSE [p1 EXCEPT !.ptr = @ + 1]

parser_expect(p, fen, expected) ==
    IF ~p.success THEN [p EXCEPT !.success = FALSE]
    ELSE LET c  == At(fen, p.ptr)
             p1 == [p EXCEPT !.rd = Max(@, p.ptr)]
         IN  IF c = CH_NUL \/ c # expected
             THEN [p1 EXCEPT !.success = FALSE]
             ELSE [p1 EXCEPT !.ptr = @ + 1]

parser_expect_space(p, fen) == parser_expect(p, fen, CH_SPACE)

\* One evaluation of the while condition of parse_piece_placement and, when it
\* holds, one run of the loop body.  pc tells a loop still running ("loop")
\* from one left by its condition ("exit") or by a return ("return").
placement_step(s, fen) ==
    IF s.pc # "loop" THEN s
    ELSE
      LET c  == At(fen, s.parser.ptr)
          s1 == [s EXCEPT !.parser.rd = Max(@, s.parser.ptr)]
      IN  IF ~(s.parser.success /\ c # CH_NUL /\ c # CH_SPACE)
          THEN [s1 EXCEPT !.pc = "exit"]
          ELSE IF c = CH_SLASH
          THEN IF s.file # BOARD_WIDTH_PHYSICAL
               THEN [s1 EXCEPT !.parser.success = FALSE, !.pc = "return"]
               ELSE [s1 EXCEPT !.rank = ToInt8(@ - 1), !.file = 0, !.parser.ptr = @ + 1]
          ELSE IF c >= CH_1 /\ c <= CH_0 + BOARD_WIDTH_PHYSICAL
          THEN [s1 EXCEPT !.file = ToU8(@ + (c - CH_0)), !.parser.ptr = @ + 1]
          ELSE IF s.file >= BOARD_WIDTH_PHYSICAL \/ s.rank < 0
          THEN [s1 EXCEPT !.parser.success = FALSE, !.pc = "return"]
          ELSE LET piece == char_to_piece(c)
               IN  IF piece = PIECE_NONE /\ c # CH_SPACE
                   THEN [s1 EXCEPT !.parser.success = FALSE, !.pc = "return"]
                   ELSE [s1 EXCEPT
                           !.board = board_set_piece(@,
                                        ToU8(FILE_RANK_TO_SQUARE(s.file, s.rank)), piece),
                           !.file = ToU8(@ + 1),
                           !.parser.ptr = @ + 1]

\* n consecutive steps of the loop, split in halves to keep the evaluation shallow.
RECURSIVE placement_loop(_, _, _)
placement_loop(s, fen, n) ==
    IF n = 0 \/ s.pc # "loop" THEN s
    ELSE IF n = 1 THEN placement_step(s, fen)
    ELSE LET h   == n \div 2
             mid == placement_loop(s, fen, h)
         IN  placement_loop(mid, fen, n - h)

parse_piece_placement(b, p, fen) ==
    IF ~p.success THEN [board |-> b, parser |-> p]
    ELSE
      LET s0 == [board |-> b, parser |-> p,
                 rank |-> BOARD_HEIGHT_PHYSICAL - 1, file |-> 0, pc |-> "loop"]
          \* every step that stays in the loop advances the cursor by one
          s  == placement_loop(s0, fen, Len(fen) + 1)
      IN  IF s.pc = "return" THEN [board |-> s.board, parser |-> s.parser]
          ELSE [board  |-> s.board,
                parser |-> [s.parser EXCEPT
                              !.success = (s.rank = 0 /\ s.file = BOARD_WIDTH_PHYSICAL)]]

parse_side_to_move(b, p, fen) ==
    IF ~p.success THEN [board |-> b, parser |-> p]
    ELSE
      LET c  == At(fen, p.ptr)
          p1 == [p EXCEPT !.rd = Max(@, p.ptr)]
      IN  IF c = CH_w
          THEN [board |-> [b EXCEPT !.side_to_move = SIDE_WHITE],
                parser |-> [p1 EXCEPT !.ptr = @ + 1]]
          ELSE IF c = CH_b
          THEN [board |-> [b EXCEPT !.side_to_move = SIDE_BLACK],
                parser |-> [p1 EXCEPT !.ptr = @ + 1]]
          ELSE [board |-> b, parser |-> [p1 EXCEPT !.success = FALSE]]

castling_step(s, fen) ==
    IF s.pc # "loop" THEN s
    ELSE
      LET c  == At(fen, s.parser.ptr)
          s1 == [s EXCEPT !.parser.rd = Max(@, s.parser.ptr)]
      IN  IF ~(s.parser.success /\ c # CH_NUL /\ c # CH_SPACE)
          THEN [s1 EXCEPT !.pc = "exit"]
          ELSE IF c = CH_K
          THEN [s1 EXCEPT !.board.castling_rights = BitOr(@, CASTLE_WK), !.parser.ptr = @ + 1]
          ELSE IF c = CH_Q
          THEN [s1 EXCEPT !.board.castling_rights = BitOr(@, CASTLE_WQ), !.parser.ptr = @ + 1]
          ELSE IF c = CH_k
          THEN [s1 EXCEPT !.board.castling_rights = BitOr(@, CASTLE_BK), !.parser.ptr = @ + 1]
          ELSE IF c = CH_q
          THEN [s1 EXCEPT !.board.castling_rights = BitOr(@, CASTLE_BQ), !.parser.ptr = @ + 1]
          ELSE [s1 EXCEPT !.parser.success = FALSE, !.pc = "return"]

RECURSIVE castling_loop(_, _, _)
castling_loop(s, fen, n) ==
    IF n = 0 \/ s.pc # "loop" THEN s
    ELSE IF n = 1 THEN castling_step(s, fen)
    ELSE LET h   == n \div 2
             mid == castling_loop(s, fen, h)
         IN  castling_loop(mid, fen, n - h)

parse_castling_rights(b, p, fen) ==
    IF ~p.success THEN [board |-> b, parser |-> p]
    ELSE IF At(fen, p.ptr) = CH_DASH
    THEN [board |-> b, parser |-> [p EXCEPT !.ptr = @ + 1, !.rd = Max(@, p.ptr)]]
    ELSE LET s0 == [board |-> b, parser |-> [p EXCEPT !.rd = Max(@, p.ptr)], pc |-> "loop"]
             s  == castling_loop(s0, fen, Len(fen) + 1)
         IN  [board |-> s.board, parser |-> s.parser]

\* parse_en_passant looking at the second character before the first.
parse_en_passant_lookahead(b, p, fen) ==
    IF ~p.success THEN [board |-> b, parser |-> p]
    ELSE IF At(fen, p.ptr + 1) = CH_NUL \/ At(fen, p.ptr) = CH_NUL
    THEN [board |-> b, parser |-> [p EXCEPT !.success = FALSE, !.rd = Max(@, p.ptr + 1)]]
    ELSE IF At(fen, p.ptr) = CH_DASH
    THEN [board  |-> [b EXCEPT !.en_passant_square = NO_SQUARE],
          parser |-> [p EXCEPT !.ptr = @ + 1, !.rd = Max(@, p.ptr + 1)]]
    ELSE
      LET p1   == [p EXCEPT !.rd = Max(@, p.ptr + 1)]
          file == ToU8(At(fen, p.ptr) - CH_a)
          rank == ToU8(At(fen, p.ptr + 1) - CH_1)
      IN  IF file >= BOARD_WIDTH_PHYSICAL \/ rank >= BOARD_HEIGHT_PHYSICAL
          THEN [board |-> b, parser |-> [p1 EXCEPT !.success = FALSE]]
          ELSE [board  |-> [b EXCEPT !.en_passant_square =
                                        ToU8(FILE_RANK_TO_SQUARE(file, rank))],
                parser |-> [p1 EXCEPT !.ptr = @ + SQUARE_STR_LEN]]

parse_en_passant(b, p, fen) ==
    IF ~p.success THEN [board |-> b, parser |-> p]
    ELSE IF At(fen, p.ptr) = CH_DASH
    THEN [board  |-> [b EXCEPT !.en_passant_square = NO_SQUARE],
          parser |-> [p EXCEPT !.ptr = @ + 1, !.rd = Max(@, p.ptr)]]
    ELSE IF At(fen, p.ptr) = CH_NUL
    THEN [board |-> b, parser |-> [p EXCEPT !.success = FALSE, !.rd = Max(@, p.ptr)]]
    ELSE IF At(fen, p.ptr + 1) = CH_NUL
    THEN [board |-> b, parser |-> [p EXCEPT !.success = FALSE, !.rd = Max(@, p.ptr + 1)]]
    ELSE
      LET p1   == [p EXCEPT !.rd = Max(@, p.ptr + 1)]
          file == ToU8(At(fen, p.ptr) - CH_a)
          rank == ToU8(At(fen, p.ptr + 1) - CH_1)
      IN  IF file >= BOARD_WIDTH_PHYSICAL \/ rank >= BOARD_HEIGHT_PHYSICAL
          THEN [board |-> b, parser |-> [p1 EXCEPT !.success = FALSE]]
          ELSE [board  |-> [b EXCEPT !.en_passant_square =
                                        ToU8(FILE_RANK_TO_SQUARE(file, rank))],
                parser |-> [p1 EXCEPT !.ptr = @ + SQUARE_STR_LEN]]

(***************************************************************************)
(* strtol(nptr, &end, 10) of the C library, long being 32 bits wide:       *)
(* white space is skipped, one sign is taken, then the longest run of      *)
(* digits; with no digit at all end is nptr and the value 0.               *)
(***************************************************************************)
LONG_MAX == 2147483647

RECURSIVE skip_space(_, _)
skip_space(s, i) == IF isspace(At(s, i)) THEN skip_space(s, i + 1) ELSE i

\* The digits from position i on: acc is the magnitude so far, over tells that
\* it has left the range of long (acc then stays put).
RECURSIVE scan_digits(_, _, _, _)
scan_digits(s, i, acc, over) ==
    IF isdigit(At(s, i))
    THEN LET d == At(s, i) - CH_0
         IN  IF over \/ acc > (LONG_MAX - d) \div 10
             THEN scan_digits(s, i + 1, acc, TRUE)
             ELSE scan_digits(s, i + 1, acc * 10 + d, FALSE)
    ELSE [end |-> i, mag |-> acc, over |-> over]

strtol(s, nptr) ==
    LET i    == skip_space(s, nptr)
        neg  == At(s, i) = CH_DASH
        j    == IF At(s, i) = CH_DASH \/ At(s, i) = CH_PLUS THEN i + 1 ELSE i
        d    == scan_digits(s, j, 0, FALSE)
    IN  IF d.end = j THEN [value |-> 0, end |-> nptr, rd |-> j]
        ELSE [value |-> IF d.over THEN (IF neg THEN (0 - LONG_MAX) - 1 ELSE LONG_MAX)
                        ELSE IF neg THEN 0 - d.mag ELSE d.mag,
              end   |-> d.end,
              rd    |-> d.end]

parse_halfmove_clock(b, p, fen) ==
    IF ~p.success THEN [board |-> b, parser |-> p]
    ELSE LET r  == strtol(fen, p.ptr)
             b1 == [b EXCEPT !.halfmove_clock = ToU16(r.value)]
             p1 == [p EXCEPT !.rd = Max(@, r.rd)]
         IN  IF r.end = p.ptr
             THEN [board |-> b1, parser |-> [p1 EXCEPT !.success = FALSE]]
             ELSE [board |-> b1, parser |-> [p1 EXCEPT !.ptr = r.end]]

parse_fullmove_number(b, p, fen) ==
    IF ~p.success THEN [board |-> b, parser |-> p]
    ELSE LET r  == strtol(fen, p.ptr)
             b1 == [b EXCEPT !.fullmove_number = ToU16(r.value)]
             p1 == [p EXCEPT !.rd = Max(@, r.rd)]
         IN  IF r.end = p.ptr
             THEN [board |-> b1, parser |-> [p1 EXCEPT !.success = FALSE]]
             ELSE [board |-> b1, parser |-> [p1 EXCEPT !.ptr = r.end]]

\* The eleven steps of board_set_fen after the clear, in order: step k takes
\* the board and parser the step before left.
RECURSIVE fen_steps(_, _, _)
fen_steps(b, fen, k) ==
    IF k = 0 THEN [board |-> board_clear(b), parser |-> parser_create(fen)]
    ELSE
      LET s == fen_steps(b, fen, k - 1)
      IN  IF k = 1 THEN parse_piece_placement(s.board, s.parser, fen)
          ELSE IF k = 3 THEN parse_side_to_move(s.board, s.parser, fen)
          ELSE IF k = 5 THEN parse_castling_rights(s.board, s.parser, fen)
          ELSE IF k = 7 THEN parse_en_passant(s.board, s.parser, fen)
          ELSE IF k = 9 THEN parse_halfmove_clock(s.board, s.parser, fen)
          ELSE IF k = 11 THEN parse_fullmove_number(s.board, s.parser, fen)
          ELSE [board |-> s.board, parser |-> parser_expect_space(s.parser, fen)]

\* board_set_fen: the value returned and the position left behind.
board_set_fen(b, fen) ==
    IF fen = NULL THEN [ret |-> FALSE, board |-> b]
    ELSE LET s == fen_steps(b, fen, 11)
         IN  [ret |-> s.parser.success, board |-> s.board]

(***************************************************************************)
(* fen.c: the writer.  A buffer is the sequence of its bytes, byte i of C  *)
(* being element i + 1.  hi is the highest index the call stored to (-1:   *)
(* none), also when that index lies outside the buffer.                    *)
(***************************************************************************)
Poke(buf, i, c) == IF i + 1 \in DOMAIN buf THEN [buf EXCEPT ![i + 1] = c] ELSE buf

writer_create(buffer, len) ==
    [buf |-> buffer, ptr |-> 0, success |-> TRUE, remaining |-> len, hi |-> 0 - 1]

\* writer_write_char without the test of the remaining capacity.
writer_write_char_unbounded(w, c) ==
    IF ~w.success THEN w
    ELSE [w EXCEPT !.buf = Poke(@, w.ptr, ToU8(c)),
                   !.hi = Max(@, w.ptr),
                   !.ptr = @ + 1,
                   !.remaining = @ - 1]

writer_write_char(w, c) ==
    IF ~w.success \/ w.remaining <= 1 THEN [w EXCEPT !.success = FALSE]
    ELSE [w EXCEPT !.buf = Poke(@, w.ptr, ToU8(c)),
                   !.hi = Max(@, w.ptr),
                   !.ptr = @ + 1,
                   !.remaining = @ - 1]

writer_write_space(w) == writer_write_char(w, CH_SPACE)

\* The loops of write_piece_placement.  A step hands the writer it leaves
\* to the next step as an argument, and the next step looks at it first
\* (the test on w.success, which is always met), so that the writer of every
\* step is computed once and in order.
RECURSIVE write_rank_files(_, _, _, _, _)
\* The inner loop from `file` on.
write_rank_files(b, w, rank, file, empty) ==
    IF ~w.success \/ w.success
    THEN IF ~(file < BOARD_WIDTH_PHYSICAL) THEN [writer |-> w, empty |-> empty]
         ELSE IF board_get_piece(b, ToU8(FILE_RANK_TO_SQUARE(file, rank))) = PIECE_NONE
         THEN write_rank_files(b, w, rank, file + 1, ToU8(empty + 1))
         ELSE write_rank_files(
                b,
                writer_write_char(
                  IF empty # 0 THEN writer_write_char(w, CH_0 + empty) ELSE w,
                  piece_to_char(
                    board_get_piece(b, ToU8(FILE_RANK_TO_SQUARE(file, rank))))),
                rank, file + 1, 0)
    ELSE [writer |-> w, empty |-> empty]

\* The end of a rank: the pending run of empty squares, then the separator.
write_rank_end(r, rank) ==
    IF rank > 0
    THEN writer_write_char(
           IF r.empty # 0 THEN writer_write_char(r.writer, CH_0 + r.empty)
           ELSE r.writer,
           CH_SLASH)
    ELSE IF r.empty # 0 THEN writer_write_char(r.writer, CH_0 + r.empty)
    ELSE r.writer

\* The outer loop from `rank` down.
RECURSIVE write_ranks(_, _, _)
write_ranks(b, w, rank) ==
    IF ~w.success \/ w.success
    THEN IF ~(rank >= 0) THEN w
         ELSE write_ranks(b, write_rank_end(write_rank_files(b, w, rank, 0, 0), rank),
                          rank - 1)
    ELSE w

write_piece_placement(b, w) ==
    IF ~w.success THEN w ELSE write_ranks(b, w, BOARD_HEIGHT_PHYSICAL - 1)

write_side_to_move(b, w) ==
    IF ~w.success THEN w
    ELSE writer_write_char(w, IF b.side_to_move = SIDE_WHITE THEN CH_w ELSE CH_b)

write_castling_rights(b, w) ==
    IF ~w.success THEN w
    ELSE
      LET rights == b.castling_rights
      IN  IF rights = 0 THEN writer_write_char(w, CH_DASH)
          ELSE
            LET w1 == IF BitAnd(rights, CASTLE_WK) # 0
                      THEN writer_write_char(w, CH_K) ELSE w
                w2 == IF BitAnd(rights, CASTLE_WQ) # 0
                      THEN writer_write_char(w1, CH_Q) ELSE w1
                w3 == IF BitAnd(rights, CASTLE_BK) # 0
                      THEN writer_write_char(w2, CH_k) ELSE w2
            IN  IF BitAnd(rights, CASTLE_BQ) # 0
                THEN writer_write_char(w3, CH_q) ELSE w3

\* write_en_passant writing the rank digit before the file letter.
write_en_passant_swapped(b, w) ==
    IF ~w.success THEN w
    ELSE
      LET en_passant == b.en_passant_square
      IN  IF en_passant = NO_SQUARE THEN writer_write_char(w, CH_DASH)
          ELSE writer_write_char(
                 writer_write_char(w, CH_1 + SQUARE_TO_RANK(en_passant)),
                 CH_a + SQUARE_TO_FILE(en_passant))

write_en_passant(b, w) ==
    IF ~w.success THEN w
    ELSE
      LET en_passant == b.en_passant_square
      IN  IF en_passant = NO_SQUARE THEN writer_write_char(w, CH_DASH)
          ELSE writer_write_char(
                 writer_write_char(w, CH_a + SQUARE_TO_FILE(en_passant)),
                 CH_1 + SQUARE_TO_RANK(en_passant))

\* The decimal digits of n >= 0, as printf's %d writes them.
RECURSIVE DecStr(_)
DecStr(n) ==
    IF n < 10 THEN <<CH_0 + n>> ELSE Append(DecStr(n \div 10), CH_0 + (n % 10))

\* snprintf(buf + at, size, ...) of the C library for the formatted text t:
\* at most size - 1 characters and a terminator are stored, Len(t) is returned.
snprintf(buf, at, size, t) ==
    LET n == IF size = 0 THEN 0
             ELSE IF Len(t) < size - 1 THEN Len(t) ELSE size - 1
    IN  [buf     |-> IF size = 0 THEN buf
                     ELSE Concrete([i \in DOMAIN buf |->
                             IF i - 1 >= at /\ i - 1 < at + n THEN t[i - at]
                             ELSE IF i - 1 = at + n THEN CH_NUL
                             ELSE buf[i]]),
         hi      |-> IF size = 0 THEN 0 - 1 ELSE at + n,
         written |-> Len(t)]

write_move_counters(b, w) ==
    IF ~w.success \/ w.remaining <= 16 THEN [w EXCEPT !.success = FALSE]
    ELSE
      LET t == DecStr(b.halfmove_clock) \o <<CH_SPACE>> \o DecStr(b.fullmove_number)
          r == snprintf(w.buf, w.ptr, w.remaining, t)
          w1 == [w EXCEPT !.buf = r.buf, !.hi = Max(@, r.hi)]
      IN  IF r.written < 0 \/ r.written >= w.remaining
          THEN [w1 EXCEPT !.success = FALSE]
          ELSE [w1 EXCEPT !.ptr = @ + r.written, !.remaining = @ - r.written]

\* board_get_fen ending the text where the writer stopped, also after a
\* failed write.
board_get_fen_truncating(b, fen, len) ==
    IF fen = NULL \/ len < FEN_MIN_LEN THEN [buf |-> fen, hi |-> 0 - 1]
    ELSE
      LET w0  == writer_create(fen, len)
          w1  == writer_write_space(write_piece_placement(b, w0))
          w2  == writer_write_space(write_side_to_move(b, w1))
          w3  == writer_write_space(write_castling_rights(b, w2))
          w4  == writer_write_space(write_en_passant(b, w3))
          w5  == write_move_counters(b, w4)
      IN  [buf |-> Poke(w5.buf, w5.ptr, CH_NUL), hi |-> Max(w5.hi, w5.ptr)]

\* board_get_fen: the buffer afterwards and the highest index stored to.
board_get_fen(b, fen, len) ==
    IF fen = NULL \/ len < FEN_MIN_LEN THEN [buf |-> fen, hi |-> 0 - 1]
    ELSE
      LET w0  == writer_create(fen, len)
          w1  == writer_write_space(write_piece_placement(b, w0))
          w2  == writer_write_space(write_side_to_move(b, w1))
          w3  == writer_write_space(write_castling_rights(b, w2))
          w4  == writer_write_space(write_en_passant(b, w3))
          w5  == write_move_counters(b, w4)
      IN  IF w5.success /\ w5.remaining > 0
          THEN [buf |-> Poke(w5.buf, w5.ptr, CH_NUL), hi |-> Max(w5.hi, w5.ptr)]
          ELSE [buf |-> Poke(w5.buf, 0, CH_NUL), hi |-> Max(w5.hi, 0)]

\* strlen of the text a buffer holds (the whole buffer when no byte is 0).
StrLen(buf) ==
    IF \A i \in DOMAIN buf : buf[i] # CH_NUL THEN Len(buf)
    ELSE (CHOOSE i \in DOMAIN buf :
            buf[i] = CH_NUL /\ \A k \in 1..(i - 1) : buf[k] # CH_NUL) - 1

\* The text a buffer holds, as strcmp sees it.
CStr(buf) == SubSeq(buf, 1, StrLen(buf))

(***************************************************************************)
(* Position texts: the one of fen.h, those of the repository's tests, and   *)
(* texts that differ from a well-formed one in a single place.              *)
(***************************************************************************)
\* fen.h: INITIAL_FEN
INITIAL_FEN ==
    Str(<<"r", "n", "b", "q", "k", "b", "n", "r", "/", "p", "p", "p", "p", "p", "p", "p", "p",
          "/", "8", "/", "8", "/", "8", "/", "8", "/", "P", "P", "P", "P", "P", "P", "P", "P",
          "/", "R", "N", "B", "Q", "K", "B", "N", "R", " ", "w", " ", "K", "Q", "k", "q", " ",
          "-", " ", "0", " ", "1">>)
\* test_board.c: after 1. e4 e5 2. Nf3
FEN_COMPLEX ==
    Str(<<"r", "n", "b", "q", "k", "b", "n", "r", "/", "p", "p", "p", "p", "1", "p", "p", "p",
          "/", "8", "/", "4", "p", "3", "/", "4", "P", "3", "/", "5", "N", "2", "/", "P", "P",
          "P", "P", "1", "P", "P", "P", "/", "R", "N", "B", "Q", "K", "B", "1", "R", " ", "b",
          " ", "K", "Q", "k", "q", " ", "-", " ", "1", " ", "2">>)
\* test_board.c: en passant target e6
FEN_EN_PASSANT ==
    Str(<<"r", "n", "b", "q", "k", "b", "n", "r", "/", "p", "p", "p", "p", "1", "p", "p", "p",
          "/", "8", "/", "4", "P", "3", "/", "8", "/", "8", "/", "P", "P", "P", "P", "1", "P",
          "P", "P", "/", "R", "N", "B", "Q", "K", "B", "N", "R", " ", "b", " ", "K", "Q", "k",
          "q", " ", "e", "6", " ", "0", " ", "2">>)
\* test_board.c: a ninth file on the last rank
FEN_NINE_FILES ==
    Str(<<"r", "n", "b", "q", "k", "b", "n", "r", "/", "p", "p", "p", "p", "p", "p", "p", "p",
          "/", "8", "/", "8", "/", "8", "/", "8", "/", "P", "P", "P", "P", "P", "P", "P", "P",
          "/", "R", "N", "B", "Q", "K", "B", "N", "R", "R", " ", "w", " ", "K", "Q", "k", "q",
          " ", "-", " ", "0", " ", "1">>)
\* test_board.c: the two counters missing
FEN_MISSING_FIELDS ==
    Str(<<"r", "n", "b", "q", "k", "b", "n", "r", "/", "p", "p", "p", "p", "p", "p", "p", "p",
          "/", "8", "/", "8", "/", "8", "/", "8", "/", "P", "P", "P", "P", "P", "P", "P", "P",
          "/", "R", "N", "B", "Q", "K", "B", "N", "R", " ", "w", " ", "K", "Q", "k", "q", " ",
          "-">>)
\* test_board.c: invalid active colour
FEN_BAD_SIDE ==
    Str(<<"r", "n", "b", "q", "k", "b", "n", "r", "/", "p", "p", "p", "p", "p", "p", "p", "p",
          "/", "8", "/", "8", "/", "8", "/", "8", "/", "P", "P", "P", "P", "P", "P", "P", "P",
          "/", "R", "N", "B", "Q", "K", "B", "N", "R", " ", "x", " ", "K", "Q", "k", "q", " ",
          "-", " ", "0", " ", "1">>)
\* test_board.c: invalid castling rights
FEN_BAD_CASTLING ==
    Str(<<"r", "n", "b", "q", "k", "b", "n", "r", "/", "p", "p", "p", "p", "p", "p", "p", "p",
          "/", "8", "/", "8", "/", "8", "/", "8", "/", "P", "P", "P", "P", "P", "P", "P", "P",
          "/", "R", "N", "B", "Q", "K", "B", "N", "R", " ", "w", " ", "X", "Y", "Z", "q", " ",
          "-", " ", "0", " ", "1">>)
\* the empty board, the shortest text there is
FEN_BARE ==
    Str(<<"8", "/", "8", "/", "8", "/", "8", "/", "8", "/", "8", "/", "8", "/", "8", " ", "w",
          " ", "-", " ", "-", " ", "0", " ", "1">>)
\* two kings, the largest counters
FEN_KINGS ==
    Str(<<"4", "k", "3", "/", "8", "/", "8", "/", "8", "/", "8", "/", "8", "/", "8", "/", "4",
          "K", "3", " ", "b", " ", "K", "q", " ", "h", "3", " ", "6", "5", "5", "3", "5", " ",
          "6", "5", "5", "3", "5">>)
\* every field but the last is well formed
FEN_LATE_FAILURE ==
    Str(<<"4", "k", "3", "/", "8", "/", "8", "/", "8", "/", "8", "/", "8", "/", "8", "/", "4",
          "K", "3", " ", "b", " ", "K", "Q", " ", "e", "3", " ", "5", " ", "x">>)
\* an unknown piece letter on the last rank
FEN_BAD_PIECE ==
    Str(<<"4", "k", "3", "/", "8", "/", "8", "/", "8", "/", "8", "/", "8", "/", "8", "/", "4",
          "X", "3", " ", "w", " ", "-", " ", "-", " ", "0", " ", "1">>)
\* one rank too few
FEN_SEVEN_RANKS ==
    Str(<<"8", "/", "8", "/", "8", "/", "8", "/", "8", "/", "8", "/", "8", " ", "w", " ", "-",
          " ", "-", " ", "0", " ", "1">>)
\* one rank too many
FEN_NINE_RANKS ==
    Str(<<"8", "/", "8", "/", "8", "/", "8", "/", "8", "/", "8", "/", "8", "/", "8", "/", "8",
          " ", "w", " ", "-", " ", "-", " ", "0", " ", "1">>)
\* a piece on a ninth rank
FEN_PIECE_BELOW ==
    Str(<<"8", "/", "8", "/", "8", "/", "8", "/", "8", "/", "8", "/", "8", "/", "8", "/", "p",
          "7", " ", "w", " ", "-", " ", "-", " ", "0", " ", "1">>)
\* a rank of seven files
FEN_SHORT_RANK ==
    Str(<<"7", "/", "8", "/", "8", "/", "8", "/", "8", "/", "8", "/", "8", "/", "8", " ", "w",
          " ", "-", " ", "-", " ", "0", " ", "1">>)
\* an empty run written as two digits
FEN_SPLIT_RUN ==
    Str(<<"4", "4", "/", "8", "/", "8", "/", "8", "/", "8", "/", "8", "/", "8", "/", "8", " ",
          "w", " ", "-", " ", "-", " ", "0", " ", "1">>)
\* castling letters out of order
FEN_CASTLING_ORDER ==
    Str(<<"8", "/", "8", "/", "8", "/", "8", "/", "8", "/", "8", "/", "8", "/", "8", " ", "w",
          " ", "q", "k", "Q", "K", " ", "-", " ", "0", " ", "1">>)
\* a castling letter twice
FEN_CASTLING_REPEAT ==
    Str(<<"8", "/", "8", "/", "8", "/", "8", "/", "8", "/", "8", "/", "8", "/", "8", " ", "w",
          " ", "K", "K", " ", "-", " ", "0", " ", "1">>)
\* an empty castling field between two spaces
FEN_EMPTY_CASTLING ==
    Str(<<"8", "/", "8", "/", "8", "/", "8", "/", "8", "/", "8", "/", "8", "/", "8", " ", "w",
          " ", " ", "-", " ", "0", " ", "1">>)
\* two spaces before the side to move
FEN_SPACE_BEFORE_SIDE ==
    Str(<<"8", "/", "8", "/", "8", "/", "8", "/", "8", "/", "8", "/", "8", "/", "8", " ", " ",
          "w", " ", "-", " ", "-", " ", "0", " ", "1">>)
\* two spaces before the halfmove clock
FEN_SPACE_BEFORE_HALFMOVE ==
    Str(<<"8", "/", "8", "/", "8", "/", "8", "/", "8", "/", "8", "/", "8", "/", "8", " ", "w",
          " ", "-", " ", "-", " ", " ", "0", " ", "1">>)
\* two spaces before the fullmove number
FEN_SPACE_BEFORE_FULLMOVE ==
    Str(<<"8", "/", "8", "/", "8", "/", "8", "/", "8", "/", "8", "/", "8", "/", "8", " ", "w",
          " ", "-", " ", "-", " ", "0", " ", " ", "1">>)
\* an en-passant target on rank 4
FEN_EP_RANK_4 ==
    Str(<<"8", "/", "8", "/", "8", "/", "8", "/", "8", "/", "8", "/", "8", "/", "8", " ", "w",
          " ", "-", " ", "e", "4", " ", "0", " ", "1">>)
\* an en-passant target on rank 1
FEN_EP_RANK_1 ==
    Str(<<"8", "/", "8", "/", "8", "/", "8", "/", "8", "/", "8", "/", "8", "/", "8", " ", "b",
          " ", "-", " ", "a", "1", " ", "0", " ", "1">>)
\* an en-passant target on rank 3
FEN_EP_RANK_3 ==
    Str(<<"8", "/", "8", "/", "8", "/", "8", "/", "8", "/", "8", "/", "8", "/", "8", " ", "b",
          " ", "-", " ", "c", "3", " ", "0", " ", "1">>)
\* an en-passant file outside a-h
FEN_EP_BAD_FILE ==
    Str(<<"8", "/", "8", "/", "8", "/", "8", "/", "8", "/", "8", "/", "8", "/", "8", " ", "w",
          " ", "-", " ", "i", "3", " ", "0", " ", "1">>)
\* an en-passant rank outside 1-8
FEN_EP_BAD_RANK ==
    Str(<<"8", "/", "8", "/", "8", "/", "8", "/", "8", "/", "8", "/", "8", "/", "8", " ", "w",
          " ", "-", " ", "e", "9", " ", "0", " ", "1">>)
\* the text ends inside the en-passant field
FEN_EP_CUT ==
    Str(<<"8", "/", "8", "/", "8", "/", "8", "/", "8", "/", "8", "/", "8", "/", "8", " ", "w",
          " ", "-", " ", "e">>)
\* further characters after the fullmove number
FEN_TRAILING ==
    Str(<<"8", "/", "8", "/", "8", "/", "8", "/", "8", "/", "8", "/", "8", "/", "8", " ", "w",
          " ", "-", " ", "-", " ", "0", " ", "1", " ", "x", "x">>)
\* a halfmove clock with a minus sign
FEN_NEGATIVE ==
    Str(<<"8", "/", "8", "/", "8", "/", "8", "/", "8", "/", "8", "/", "8", "/", "8", " ", "w",
          " ", "-", " ", "-", " ", "-", "5", " ", "1">>)
\* a fullmove number above 65535
FEN_OVERFLOW ==
    Str(<<"8", "/", "8", "/", "8", "/", "8", "/", "8", "/", "8", "/", "8", "/", "8", " ", "w",
          " ", "-", " ", "-", " ", "0", " ", "7", "0", "0", "0", "0">>)
\* a halfmove clock with leading zeros
FEN_LEADING_ZERO ==
    Str(<<"8", "/", "8", "/", "8", "/", "8", "/", "8", "/", "8", "/", "8", "/", "8", " ", "w",
          " ", "-", " ", "-", " ", "0", "0", "7", " ", "1">>)
\* the empty text
FEN_EMPTY ==
    << >>
\* a first rank written as 33 empty runs of eight
FEN_WIDE_RANK ==
    Concrete([i \in 1..33 |-> CH_8])
    \o Str(<<"/", "8", "/", "8", "/", "8", "/", "8", "/", "8", "/", "8", "/", "8",
             " ", "w", " ", "-", " ", "-", " ", "0", " ", "1">>)
\* 264 empty ranks
FEN_MANY_RANKS ==
    Concrete([i \in 1..527 |-> IF i % 2 = 1 THEN CH_8 ELSE CH_SLASH])
    \o Str(<<" ", "w", " ", "-", " ", "-", " ", "0", " ", "1">>)

\* the text ends where the en-passant field would begin
FEN_EP_MISSING ==
    Str(<<"8", "/", "8", "/", "8", "/", "8", "/", "8", "/", "8", "/", "8", "/", "8", " ", "w",
          " ", "-", " ">>)

\* a piece on every square and every field at its longest: 93 characters
FEN_FULL ==
    Str(<<"n", "n", "n", "n", "n", "n", "n", "n", "/", "p", "p", "p", "p", "p", "p", "p", "p",
          "/", "Q", "Q", "Q", "Q", "Q", "Q", "Q", "Q", "/", "k", "k", "k", "k", "k", "k", "k",
          "k", "/", "K", "K", "K", "K", "K", "K", "K", "K", "/", "q", "q", "q", "q", "q", "q",
          "q", "q", "/", "P", "P", "P", "P", "P", "P", "P", "P", "/", "R", "B", "R", "B", "R",
          "B", "R", "B", " ", "b", " ", "K", "Q", "k", "q", " ", "e", "3", " ", "6", "5", "5",
          "3", "5", " ", "6", "5", "5", "3", "5">>)

\* board_reset reading the text of the two kings.
board_reset_kings(b) == board_set_fen(board_clear(b), FEN_KINGS).board

\* board.c: board_reset
board_reset(b) == board_set_fen(board_clear(b), INITIAL_FEN).board

(***************************************************************************)
(* move.h: the 24-bit move encoding                                        *)
(***************************************************************************)
PRIORITY_NORMAL  == 0
PRIORITY_KILLER  == 1
PRIORITY_CAPTURE == 2
PRIORITY_HASH    == 3

SPECIAL_NONE         == 0
SPECIAL_EN_PASSANT   == 1
SPECIAL_CASTLE_KING  == 2
SPECIAL_CASTLE_QUEEN == 3

MOVE_FROM_SHIFT     == 0
MOVE_FROM_BITS      == 7
MOVE_TO_SHIFT       == 7
MOVE_TO_BITS        == 7
MOVE_PRIORITY_SHIFT == 14
MOVE_PRIORITY_BITS  == 2
MOVE_PROMOTE_SHIFT  == 16
MOVE_PROMOTE_BITS   == 3
MOVE_CAPTURE_SHIFT  == 19
MOVE_CAPTURE_BITS   == 3
MOVE_SPECIAL_SHIFT  == 22
MOVE_SPECIAL_BITS   == 2

MOVE_FROM_MASK     == 2 ^ MOVE_FROM_BITS - 1
MOVE_TO_MASK       == 2 ^ MOVE_TO_BITS - 1
MOVE_PRIORITY_MASK == 2 ^ MOVE_PRIORITY_BITS - 1
MOVE_PROMOTE_MASK  == 2 ^ MOVE_PROMOTE_BITS - 1
MOVE_CAPTURE_MASK  == 2 ^ MOVE_CAPTURE_BITS - 1
MOVE_SPECIAL_MASK  == 2 ^ MOVE_SPECIAL_BITS - 1

MOVE_STR_MIN_LEN    == 4
MOVE_STR_MAX_LEN    == 5
MOVE_STR_MIN_BUFFER == MOVE_STR_MIN_LEN + 1
MOVE_STR_MAX_BUFFER == MOVE_STR_MAX_LEN + 1

\* (move_t)x << n and move >> n on 24-bit values
Shl24(x, n) == ToU24(x * 2 ^ n)
Shr(x, n) == x \div 2 ^ n

make_move(from, to) ==
    BitOr(Shl24(from, MOVE_FROM_SHIFT), Shl24(to, MOVE_TO_SHIFT))

\* make_capture without the capture and priority fields.
make_capture_plain(from, to, captured) == make_move(from, to)

make_capture(from, to, captured) ==
    BitOr(BitOr(make_move(from, to), Shl24(captured, MOVE_CAPTURE_SHIFT)),
          Shl24(PRIORITY_CAPTURE, MOVE_PRIORITY_SHIFT))

\* make_promotion without the promotion field.
make_promotion_plain(from, to, promote) == make_move(from, to)

make_promotion(from, to, promote) ==
    BitOr(make_move(from, to), Shl24(promote, MOVE_PROMOTE_SHIFT))

\* make_capture_promotion with the promotion in the field of the capture.
make_capture_promotion_overlap(from, to, captured, promote) ==
    BitOr(BitOr(BitOr(make_move(from, to), Shl24(captured, MOVE_CAPTURE_SHIFT)),
                Shl24(PRIORITY_CAPTURE, MOVE_PRIORITY_SHIFT)),
          Shl24(promote, MOVE_CAPTURE_SHIFT))

make_capture_promotion(from, to, captured, promote) ==
    BitOr(BitOr(BitOr(make_move(from, to), Shl24(captured, MOVE_CAPTURE_SHIFT)),
                Shl24(PRIORITY_CAPTURE, MOVE_PRIORITY_SHIFT)),
          Shl24(promote, MOVE_PROMOTE_SHIFT))

\* make_special without the capture of the pawn for en passant.
make_special_plain(from, to, special) ==
    BitOr(make_move(from, to), Shl24(special, MOVE_SPECIAL_SHIFT))

make_special(from, to, special) ==
    LET move == BitOr(make_move(from, to), Shl24(special, MOVE_SPECIAL_SHIFT))
    IN  IF special = SPECIAL_EN_PASSANT
        THEN BitOr(move, BitOr(Shl24(PIECE_PAWN, MOVE_CAPTURE_SHIFT),
                               Shl24(PRIORITY_CAPTURE, MOVE_PRIORITY_SHIFT)))
        ELSE move

get_from_square(move)    == ToU8(BitAnd(Shr(move, MOVE_FROM_SHIFT), MOVE_FROM_MASK))
get_to_square(move)      == ToU8(BitAnd(Shr(move, MOVE_TO_SHIFT), MOVE_TO_MASK))
get_capture_type(move)   == BitAnd(Shr(move, MOVE_CAPTURE_SHIFT), MOVE_CAPTURE_MASK)
get_promotion_type(move) == BitAnd(Shr(move, MOVE_PROMOTE_SHIFT), MOVE_PROMOTE_MASK)
get_special_type(move)   == BitAnd(Shr(move, MOVE_SPECIAL_SHIFT), MOVE_SPECIAL_MASK)
get_priority(move)       == BitAnd(Shr(move, MOVE_PRIORITY_SHIFT), MOVE_PRIORITY_MASK)

\* set_priority without clearing the field first.
set_priority_or(move, priority) ==
    BitOr(move, Shl24(priority, MOVE_PRIORITY_SHIFT))

\* move &= ~(mask << shift); move | (priority << shift)
set_priority(move, priority) ==
    LET field   == Shl24(MOVE_PRIORITY_MASK, MOVE_PRIORITY_SHIFT)
        cleared == move - BitAnd(move, field)
    IN  BitOr(cleared, Shl24(priority, MOVE_PRIORITY_SHIFT))

is_capture(move)   == get_capture_type(move) # PIECE_NONE
is_promotion(move) == get_promotion_type(move) # PIECE_NONE
is_special(move)   == get_special_type(move) # SPECIAL_NONE

(***************************************************************************)
(* move.c: moves as text                                                   *)
(***************************************************************************)
FILE_CHARS  == Str(<<"a", "b", "c", "d", "e", "f", "g", "h">>)
RANK_CHARS  == Str(<<"1", "2", "3", "4", "5", "6", "7", "8">>)
PROMO_CHARS == Str(<<"N", "B", "R", "Q">>)

file_to_char(file) == IF file < 8 THEN FILE_CHARS[file + 1] ELSE CH_NUL
rank_to_char(rank) == IF rank < 8 THEN RANK_CHARS[rank + 1] ELSE CH_NUL

char_to_file(c) == IF c >= CH_a /\ c <= CH_h THEN ToInt8(c - CH_a) ELSE 0 - 1
char_to_rank(c) == IF c >= CH_1 /\ c <= CH_8 THEN ToInt8(c - CH_1) ELSE 0 - 1

\* promotion_to_char with the letters of the bishop and the rook exchanged.
promotion_to_char_swapped(type) ==
    IF type = PIECE_KNIGHT THEN PROMO_CHARS[1]
    ELSE IF type = PIECE_BISHOP THEN PROMO_CHARS[3]
    ELSE IF type = PIECE_ROOK THEN PROMO_CHARS[2]
    ELSE IF type = PIECE_QUEEN THEN PROMO_CHARS[4]
    ELSE CH_NUL

promotion_to_char(type) ==
    IF type = PIECE_KNIGHT THEN PROMO_CHARS[1]
    ELSE IF type = PIECE_BISHOP THEN PROMO_CHARS[2]
    ELSE IF type = PIECE_ROOK THEN PROMO_CHARS[3]
    ELSE IF type = PIECE_QUEEN THEN PROMO_CHARS[4]
    ELSE CH_NUL

char_to_promotion(c) ==
    LET u == toupper(c)
    IN  IF u = CH_N THEN PIECE_KNIGHT
        ELSE IF u = CH_B THEN PIECE_BISHOP
        ELSE IF u = CH_R THEN PIECE_ROOK
        ELSE IF u = CH_Q THEN PIECE_QUEEN
        ELSE PIECE_NONE

\* The size check that opens move_to_string: TRUE when the call goes on.
move_to_string_size_ok(move, str, length) ==
    ~(move = 0 \/ str = NULL \/ length < MOVE_STR_MIN_LEN
      \/ (is_promotion(move) /\ length < MOVE_STR_MAX_LEN))

\* move_to_string: the value returned, the buffer afterwards and the highest
\* index stored to (-1: none), also when it lies outside the `length` bytes.
move_to_string(move, str, length) ==
    LET untouched == [ret |-> FALSE, buf |-> str, hi |-> 0 - 1]
    IN
    IF ~move_to_string_size_ok(move, str, length) THEN untouched
    ELSE
      LET from == get_from_square(move)
          to   == get_to_square(move)
      IN
      IF ~is_valid_square(from) \/ ~is_valid_square(to) THEN untouched
      ELSE
        LET ff == file_to_char(square_to_file(from))
            fr == rank_to_char(square_to_rank(from))
            tf == file_to_char(square_to_file(to))
            tr == rank_to_char(square_to_rank(to))
        IN
        IF ff = CH_NUL \/ fr = CH_NUL THEN untouched
        ELSE IF tf = CH_NUL \/ tr = CH_NUL THEN untouched
        ELSE
          LET b4    == Poke(Poke(Poke(Poke(str, 0, ff), 1, fr), 2, tf), 3, tr)
              promo == get_promotion_type(move)
          IN
          IF promo # PIECE_NONE
          THEN LET pc == promotion_to_char(promo)
               IN  IF pc = CH_NUL THEN [ret |-> FALSE, buf |-> b4, hi |-> 3]
                   ELSE [ret |-> TRUE,
                         buf |-> Poke(Poke(b4, 4, tolower(pc)), 5, CH_NUL),
                         hi  |-> 5]
          ELSE [ret |-> TRUE, buf |-> Poke(b4, 4, CH_NUL), hi |-> 4]

\* A null pointer passed where a position is expected.
NULL_BOARD == [null |-> TRUE]

abs(x) == IF x < 0 THEN 0 - x ELSE x

\* The move string_to_move builds once the text and the source square are
\* accepted: capture, promotion, then the two special upgrades.
string_to_move_build(str, b, len, from_file, from_rank, to_file, to_rank, piece) ==
    LET from  == square_from_file_rank(from_file, from_rank)
        to    == square_from_file_rank(to_file, to_rank)
        type  == GET_PIECE_TYPE(piece)
        color == GET_PIECE_COLOR(piece)
        capture      == board_get_piece(b, to)
        capture_type == IF capture # PIECE_NONE THEN GET_PIECE_TYPE(capture)
                        ELSE PIECE_NONE
        move1 == IF capture # PIECE_NONE THEN make_capture(from, to, capture_type)
                 ELSE make_move(from, to)
        has_promotion == (len = MOVE_STR_MAX_LEN)
        promo == char_to_promotion(At(str, 5))
        valid_white_promotion == (color = PIECE_WHITE /\ to_rank = 7)
        valid_black_promotion == (color = PIECE_BLACK /\ to_rank = 0)
        move2 == IF has_promotion
                 THEN IF capture_type # PIECE_NONE
                      THEN make_capture_promotion(from, to, capture_type, promo)
                      ELSE make_promotion(from, to, promo)
                 ELSE move1
        file_diff == ToInt8(to_file - from_file)
    IN
    IF has_promotion /\ promo = PIECE_NONE THEN 0
    ELSE IF has_promotion
            /\ (type # PIECE_PAWN \/ (~valid_white_promotion /\ ~valid_black_promotion))
    THEN 0
    ELSE IF type = PIECE_KING
    THEN IF abs(file_diff) = 2
         THEN make_special(from, to,
                 IF file_diff > 0 THEN SPECIAL_CASTLE_KING ELSE SPECIAL_CASTLE_QUEEN)
         ELSE move2
    ELSE IF type = PIECE_PAWN
    THEN IF to = b.en_passant_square
         THEN make_special(from, to, SPECIAL_EN_PASSANT)
         ELSE move2
    ELSE move2

string_to_move(str, b) ==
    IF str = NULL \/ b = NULL_BOARD THEN 0
    ELSE
      LET len == Len(str)
      IN
      IF len < MOVE_STR_MIN_LEN \/ len > MOVE_STR_MAX_LEN THEN 0
      ELSE
        LET from_file == char_to_file(At(str, 1))
            from_rank == char_to_rank(At(str, 2))
            to_file   == char_to_file(At(str, 3))
            to_rank   == char_to_rank(At(str, 4))
        IN
        IF from_file < 0 \/ from_rank < 0 \/ to_file < 0 \/ to_rank < 0 THEN 0
        ELSE
          LET piece == board_get_piece(b, square_from_file_rank(from_file, from_rank))
          IN  IF piece = PIECE_NONE THEN 0
              ELSE string_to_move_build(str, b, len, from_file, from_rank,
                                        to_file, to_rank, piece)

(***************************************************************************)
(* The state: one position, the record of the last call made on it, and    *)
(* for each side the square of the last king board_set_piece was asked to  *)
(* place on a valid square (NoKing: none since the last clear; Untracked:   *)
(* the kings were last placed by the text reader).                         *)
(***************************************************************************)
NoKing    == 0 - 1
Untracked == 0 - 2

Sides == {SIDE_WHITE, SIDE_BLACK}

\* The record of a call: its name, its arguments and what it gave back.
\*   ret            the value returned (set_fen, move_to_string)
\*   text           the text passed (set_fen, string_to_move)
\*   len, buf0, buf the length passed, the buffer before and after
\*   hi             the highest buffer index stored to
\*   move           the move passed (move_to_string) or returned (string_to_move)
\*   sq, piece      the arguments of set_piece
\*   from           get_fen: the text the position was read from by the
\*                  successful set_fen just before, else NULL
\*   nullpos        string_to_move: a null position was passed
NoCall ==
    [name |-> "init", ret |-> FALSE, text |-> << >>, len |-> 0, buf0 |-> << >>,
     buf |-> << >>, hi |-> 0 - 1, move |-> 0, sq |-> 0, piece |-> 0,
     from |-> NULL, nullpos |-> FALSE]

\* A buffer of n bytes the caller never initialised: no terminator in it.
Stale(n) == Concrete([i \in 1..n |-> CH_x])

SQ(file, rank) == square_from_file_rank(file, rank)

WHITE_KING == MAKE_PIECE(PIECE_WHITE, PIECE_KING)
BLACK_KING == MAKE_PIECE(PIECE_BLACK, PIECE_KING)
WHITE_PAWN == MAKE_PIECE(PIECE_WHITE, PIECE_PAWN)
BLACK_PAWN == MAKE_PIECE(PIECE_BLACK, PIECE_PAWN)
WHITE_ROOK == MAKE_PIECE(PIECE_WHITE, PIECE_ROOK)
BLACK_QUEEN == MAKE_PIECE(PIECE_BLACK, PIECE_QUEEN)

(***************************************************************************)
(* The calls                                                               *)
(***************************************************************************)
\* The result of a call is bound once (\E over the one value it has) and
\* then stored.
BoardClear ==
    \E b \in {board_clear(board)} :
        /\ board' = b
        /\ lastKing' = <<NoKing, NoKing>>
        /\ op' = [NoCall EXCEPT !.name = "clear"]

BoardReset ==
    \E b \in {board_reset(board)} :
        /\ board' = b
        /\ lastKing' = <<Untracked, Untracked>>
        /\ op' = [NoCall EXCEPT !.name = "reset"]

BoardSetPiece(squares, pieces) ==
    \E sq \in squares, piece \in pieces :
      \E b \in {board_set_piece(board, sq, piece)} :
        /\ board' = b
        /\ lastKing' = IF sq < 128 /\ (sq \div 8) % 2 = 0 /\ piece % 8 = 6
                       THEN [lastKing EXCEPT ![IF piece < 128 THEN 1 ELSE 2] = sq]
                       ELSE lastKing
        /\ op' = [NoCall EXCEPT !.name = "set_piece", !.sq = sq, !.piece = piece]

BoardSetFen(texts) ==
    \E fen \in texts :
      \E r \in {board_set_fen(board, fen)} :
        /\ board' = r.board
        /\ lastKing' = IF fen = NULL THEN lastKing
                       ELSE <<Untracked, Untracked>>
        /\ op' = [NoCall EXCEPT !.name = "set_fen", !.text = fen, !.ret = r.ret]

BoardGetFen(lens) ==
    \E len \in lens : \E fen \in {Stale(len), NULL} :
      \E r \in {board_get_fen(board, fen, len)} :
        /\ op' = [NoCall EXCEPT
                    !.name = "get_fen", !.len = len, !.buf0 = fen,
                    !.buf = r.buf, !.hi = r.hi,
                    !.from = IF op.name = "set_fen" /\ op.ret THEN op.text
                             ELSE NULL]
        /\ UNCHANGED <<board, lastKing>>

\* board_set_fen of the text that board_get_fen has just left in the buffer
\* (buf0 is the buffer the text is read from).
BoardSetFenWritten ==
    /\ op.name = "get_fen" /\ op.buf0 # NULL
    /\ \E i \in 1..Len(op.buf) : op.buf[i] = CH_NUL
    /\ \E fen \in {CStr(op.buf)} :
         \E r \in {board_set_fen(board, fen)} :
           /\ board' = r.board
           /\ lastKing' = <<Untracked, Untracked>>
           /\ op' = [NoCall EXCEPT !.name = "set_fen", !.text = fen,
                                    !.buf0 = op.buf, !.ret = r.ret]

MoveToString(moves, lens) ==
    \E move \in moves, len \in lens : \E str \in {Stale(len), NULL} :
      \E r \in {move_to_string(move, str, len)} :
        /\ op' = [NoCall EXCEPT
                    !.name = "move_to_string", !.move = move, !.len = len,
                    !.buf0 = str, !.buf = r.buf, !.hi = r.hi, !.ret = r.ret]
        /\ UNCHANGED <<board, lastKing>>

\* move_to_string of the move string_to_move has just returned for an
\* accepted text, into a buffer of 6 bytes (text keeps the text it came from).
MoveToStringReturned ==
    /\ op.name = "string_to_move" /\ op.move # 0
    /\ \E str \in {Stale(MOVE_STR_MAX_BUFFER)} :
         \E r \in {move_to_string(op.move, str, MOVE_STR_MAX_BUFFER)} :
           /\ op' = [NoCall EXCEPT
                       !.name = "move_to_string", !.move = op.move,
                       !.len = MOVE_STR_MAX_BUFFER, !.text = op.text,
                       !.nullpos = op.nullpos,
                       !.buf0 = str, !.buf = r.buf, !.hi = r.hi, !.ret = r.ret]
           /\ UNCHANGED <<board, lastKing>>

StringToMove(texts) ==
    \E str \in texts, nullpos \in BOOLEAN :
      \E m \in {string_to_move(str, IF nullpos THEN NULL_BOARD ELSE board)} :
        /\ op' = [NoCall EXCEPT
                    !.name = "string_to_move", !.text = str, !.nullpos = nullpos,
                    !.move = m]
        /\ UNCHANGED <<board, lastKing>>

(***************************************************************************)
(* Spec: the position model.  A position starts cleared (board_init) and   *)
(* is then cleared, reset, filled square by square, read from a text and   *)
(* written, in any order.                                                  *)
(***************************************************************************)
Squares == {SQ(4, 0), SQ(4, 7), 8, NO_SQUARE}
Pieces  == {PIECE_NONE, WHITE_KING, BLACK_KING, WHITE_PAWN}
Texts   == {FEN_KINGS, FEN_NINE_FILES, INITIAL_FEN, NULL}
Lens    == {100}

Init ==
    /\ board = board_init(NoCall)
    /\ lastKing = <<NoKing, NoKing>>
    /\ op = NoCall

Next ==
    \/ BoardClear
    \/ BoardReset
    \/ BoardSetPiece(Squares, Pieces)
    \/ BoardSetFen(Texts)
    \/ BoardGetFen(Lens)

Spec == Init /\ [][Next]_vars

(***************************************************************************)
(* SpecFen: the position text codec.  A position that is cleared or holds  *)
(* pieces is read from each of the texts and written into buffers of each  *)
(* length.                                                                 *)
(***************************************************************************)
FenTexts ==
    {INITIAL_FEN, FEN_COMPLEX, FEN_EN_PASSANT, FEN_NINE_FILES,
     FEN_MISSING_FIELDS, FEN_BAD_SIDE, FEN_BAD_CASTLING, FEN_BARE, FEN_KINGS,
     FEN_LATE_FAILURE, FEN_BAD_PIECE, FEN_SEVEN_RANKS, FEN_NINE_RANKS,
     FEN_PIECE_BELOW, FEN_SHORT_RANK, FEN_SPLIT_RUN, FEN_CASTLING_ORDER,
     FEN_CASTLING_REPEAT, FEN_EMPTY_CASTLING, FEN_SPACE_BEFORE_SIDE,
     FEN_SPACE_BEFORE_HALFMOVE, FEN_SPACE_BEFORE_FULLMOVE, FEN_EP_RANK_4,
     FEN_EP_RANK_1, FEN_EP_RANK_3, FEN_EP_BAD_FILE, FEN_EP_BAD_RANK,
     FEN_EP_CUT, FEN_TRAILING, FEN_NEGATIVE, FEN_OVERFLOW, FEN_LEADING_ZERO,
     FEN_EMPTY, FEN_WIDE_RANK, FEN_MANY_RANKS, FEN_FULL,
     FEN_EP_MISSING, NULL}

FenLens == {1, 23, 24, 30, 45, 47, 52, 57, 100}

\* A position with content in every field the reader can set.
UsedPosition ==
    LET b1 == board_set_piece(board_clear(NoCall), SQ(3, 3), BLACK_QUEEN)
        b2 == board_set_piece(b1, SQ(6, 0), WHITE_KING)
    IN  board_set_fen(b2, FEN_EN_PASSANT).board

UsedPositionSquares ==
    board_set_piece(board_set_piece(board_clear(NoCall), SQ(3, 3), BLACK_QUEEN),
                    SQ(6, 0), WHITE_KING)

InitFen ==
    /\ board \in {board_init(NoCall), UsedPosition, UsedPositionSquares}
    /\ lastKing = <<Untracked, Untracked>>
    /\ op = NoCall

NextFen ==
    \/ BoardSetFen(FenTexts)
    \/ BoardGetFen(FenLens)
    \/ BoardSetFenWritten

SpecFen == InitFen /\ [][NextFen]_vars

(***************************************************************************)
(* SpecMove: the move text codec.  On a position that is cleared, the      *)
(* standard start or a middle game, moves are written into buffers of each *)
(* length and move texts are parsed.                                       *)
(***************************************************************************)
\* Kings and rooks at home, pawns one step from promotion, and a pawn that
\* may be taken en passant on e3.
FEN_MOVES ==
    Str(<<"r", "3", "k", "2", "r", "/", "1", "P", "4", "P", "1", "/", "8", "/", "8",
          "/", "3", "p", "P", "3", "/", "8", "/", "1", "p", "4", "p", "1", "/", "R",
          "3", "K", "2", "R", " ", "b", " ", "K", "Q", "k", "q", " ", "e", "3", " ",
          "0", " ", "1">>)
\* Move texts: the first is the one of test_move.c.
STR_E2E4 == Str(<<"e", "2", "e", "4">>)
STR_A1A1 == Str(<<"a", "1", "a", "1">>)
STR_A1A8 == Str(<<"a", "1", "a", "8">>)
STR_E1G1 == Str(<<"e", "1", "g", "1">>)
STR_E1C1 == Str(<<"e", "1", "c", "1">>)
STR_E8G8 == Str(<<"e", "8", "g", "8">>)
STR_D4E3 == Str(<<"d", "4", "e", "3">>)
STR_B7B8 == Str(<<"b", "7", "b", "8">>)
STR_B7B8Q == Str(<<"b", "7", "b", "8", "q">>)
STR_B7B8_UPPER == Str(<<"b", "7", "b", "8", "Q">>)
STR_B7A8N == Str(<<"b", "7", "a", "8", "n">>)
STR_B7B8K == Str(<<"b", "7", "b", "8", "k">>)
STR_B7B8P == Str(<<"b", "7", "b", "8", "p">>)
STR_B2B1R == Str(<<"b", "2", "b", "1", "r">>)
STR_B2A1B == Str(<<"b", "2", "a", "1", "b">>)
STR_B2B3Q == Str(<<"b", "2", "b", "3", "q">>)
STR_B7B6Q == Str(<<"b", "7", "b", "6", "q">>)
STR_B2B8Q == Str(<<"b", "2", "b", "8", "q">>)
STR_B7B1Q == Str(<<"b", "7", "b", "1", "q">>)
STR_E1E2Q == Str(<<"e", "1", "e", "2", "q">>)
STR_A1A8Q == Str(<<"a", "1", "a", "8", "q">>)
STR_A3A4 == Str(<<"a", "3", "a", "4">>)
STR_A3A8Q == Str(<<"a", "3", "a", "8", "q">>)
STR_UPPER_FILE == Str(<<"E", "2", "e", "4">>)
STR_BAD_FILE == Str(<<"i", "1", "a", "1">>)
STR_BAD_RANK == Str(<<"a", "1", "a", "9">>)
STR_BAD_TO_FILE == Str(<<"a", "1", "i", "1">>)
STR_BAD_FROM_RANK == Str(<<"a", "0", "a", "1">>)
STR_SHORT == Str(<<"a", "1", "a">>)
STR_LONG == Str(<<"b", "7", "b", "8", "q", "q">>)
STR_EMPTY == << >>

MoveTexts ==
    {STR_E2E4, STR_A1A1, STR_A1A8, STR_E1G1, STR_E1C1, STR_E8G8, STR_D4E3,
     STR_B7B8, STR_B7B8Q, STR_B7B8_UPPER, STR_B7A8N, STR_B7B8K, STR_B7B8P,
     STR_B2B1R, STR_B2A1B, STR_B2B3Q, STR_B7B6Q, STR_B2B8Q, STR_B7B1Q,
     STR_E1E2Q, STR_A1A8Q, STR_A3A4, STR_A3A8Q, STR_UPPER_FILE, STR_BAD_FILE,
     STR_BAD_RANK, STR_BAD_TO_FILE, STR_BAD_FROM_RANK, STR_SHORT, STR_LONG,
     STR_EMPTY, NULL}

MV_QUIET             == make_move(SQ(4, 1), SQ(4, 3))
MV_CAPTURE           == make_capture(SQ(4, 3), SQ(3, 4), PIECE_PAWN)
MV_PROMOTION         == make_promotion(SQ(1, 6), SQ(1, 7), PIECE_QUEEN)
MV_CAPTURE_PROMOTION == make_capture_promotion(SQ(1, 6), SQ(0, 7), PIECE_ROOK, PIECE_KNIGHT)
MV_CASTLE            == make_special(SQ(4, 0), SQ(6, 0), SPECIAL_CASTLE_KING)
MV_EN_PASSANT        == make_special(SQ(3, 3), SQ(4, 2), SPECIAL_EN_PASSANT)
MV_A1A1              == make_capture(SQ(0, 0), SQ(0, 0), PIECE_ROOK)
MV_BAD_FROM          == make_move(8, SQ(4, 3))
MV_BAD_TO            == make_move(SQ(4, 1), 127)
MV_KING_PROMOTION    == make_promotion(SQ(1, 6), SQ(1, 7), PIECE_KING)
MV_PAWN_PROMOTION    == make_promotion(SQ(1, 1), SQ(1, 0), PIECE_PAWN)
MV_ROOK_PROMOTION    == make_promotion(SQ(1, 1), SQ(1, 0), PIECE_ROOK)
MV_BISHOP_PROMOTION  == make_capture_promotion(SQ(1, 1), SQ(0, 0), PIECE_ROOK, PIECE_BISHOP)
MV_HASH_A1A1         == set_priority(0, PRIORITY_HASH)

Moves ==
    {0, MV_QUIET, MV_CAPTURE, MV_PROMOTION, MV_CAPTURE_PROMOTION, MV_CASTLE,
     MV_EN_PASSANT, MV_A1A1, MV_BAD_FROM, MV_BAD_TO, MV_KING_PROMOTION,
     MV_PAWN_PROMOTION, MV_ROOK_PROMOTION, MV_BISHOP_PROMOTION, MV_HASH_A1A1}

MoveLens == {0, 3, 4, 5, 6, 7}

\* The same position with white to move and the en-passant target on a8,
\* where a rook stands.
FEN_MOVES_TARGET_A8 ==
    Str(<<"r", "3", "k", "2", "r", "/", "1", "P", "4", "P", "1", "/", "8", "/", "8", "/",
          "3", "p", "P", "3", "/", "8", "/", "1", "p", "4", "p", "1", "/", "R", "3", "K",
          "2", "R", " ", "w", " ", "K", "Q", "k", "q", " ", "a", "8", " ", "0", " ", "1">>)

InitMove ==
    /\ board \in {board_init(NoCall), board_reset(NoCall),
                  board_set_fen(board_init(NoCall), FEN_MOVES).board,
                  board_set_fen(board_init(NoCall), FEN_MOVES_TARGET_A8).board}
    /\ lastKing = <<Untracked, Untracked>>
    /\ op = NoCall

NextMove ==
    \/ MoveToString(Moves, MoveLens)
    \/ StringToMove(MoveTexts)
    \/ MoveToStringReturned

SpecMove == InitMove /\ [][NextMove]_vars

(***************************************************************************)
(* The move constructors and set_priority as pure functions: the initial   *)
(* state draws a call with its arguments, the actions apply the function.  *)
(* set_priority is also applied to the move a finished call returned.      *)
(***************************************************************************)
\* The squares of the board, and some values of square_t off it.
ValidSquares == {sq \in 0..127 : is_valid_square(sq)}
OffBoard == {8, 127, 128, NO_SQUARE}
EncSquares == {0, 52, 119} \cup OffBoard
EncPairs ==
    ((ValidSquares \cup OffBoard) \X EncSquares)
        \cup (EncSquares \X (ValidSquares \cup OffBoard))

PieceTypes == PIECE_NONE..PIECE_KING
\* Captured and promotion types drawn together with every pair of squares.
TypePairs == {<<PIECE_NONE, PIECE_NONE>>, <<PIECE_PAWN, PIECE_QUEEN>>,
              <<PIECE_ROOK, PIECE_KNIGHT>>, <<PIECE_KING, PIECE_KING>>}
SpecialTypes == SPECIAL_NONE..SPECIAL_CASTLE_QUEEN
Priorities == PRIORITY_NORMAL..PRIORITY_HASH
\* 24-bit values that no constructor returns: all bits, alternating bits,
\* the priority field alone, everything but the priority field.
RawMoves == {0, 16777215, 11184810, 5592405, 49152, 16728063}

Call(name, from, to, captured, promote, special, priority, arg) ==
    [name |-> name, done |-> FALSE, from |-> from, to |-> to,
     captured |-> captured, promote |-> promote, special |-> special,
     priority |-> priority, arg |-> arg, move |-> 0]

MakeMove ==
    /\ op.name = "make_move" /\ ~op.done
    /\ \E r \in {make_move(op.from, op.to)} :
          op' = [op EXCEPT !.done = TRUE, !.move = r]
    /\ UNCHANGED <<board, lastKing>>

MakeCapture ==
    /\ op.name = "make_capture" /\ ~op.done
    /\ \E r \in {make_capture(op.from, op.to, op.captured)} :
          op' = [op EXCEPT !.done = TRUE, !.move = r]
    /\ UNCHANGED <<board, lastKing>>

MakePromotion ==
    /\ op.name = "make_promotion" /\ ~op.done
    /\ \E r \in {make_promotion(op.from, op.to, op.promote)} :
          op' = [op EXCEPT !.done = TRUE, !.move = r]
    /\ UNCHANGED <<board, lastKing>>

MakeCapturePromotion ==
    /\ op.name = "make_capture_promotion" /\ ~op.done
    /\ \E r \in {make_capture_promotion(op.from, op.to, op.captured, op.promote)} :
          op' = [op EXCEPT !.done = TRUE, !.move = r]
    /\ UNCHANGED <<board, lastKing>>

MakeSpecial ==
    /\ op.name = "make_special" /\ ~op.done
    /\ \E r \in {make_special(op.from, op.to, op.special)} :
          op' = [op EXCEPT !.done = TRUE, !.move = r]
    /\ UNCHANGED <<board, lastKing>>

\* set_priority on the drawn value, or on the move the last call returned.
SetPriority(priorities) ==
    /\ \/ /\ op.name = "set_priority" /\ ~op.done
          /\ \E r \in {set_priority(op.arg, op.priority)} :
                op' = [op EXCEPT !.done = TRUE, !.move = r]
       \/ /\ op.name # "set_priority" /\ op.done
          /\ \E priority \in priorities :
                \E r \in {set_priority(op.move, priority)} :
                   op' = [op EXCEPT !.name = "set_priority", !.arg = op.move,
                                    !.priority = priority, !.move = r]
    /\ UNCHANGED <<board, lastKing>>

InitEncode ==
    /\ board = board_init(NoCall)
    /\ lastKing = <<Untracked, Untracked>>
    /\ \/ \E from \in ValidSquares \cup OffBoard, to \in ValidSquares \cup OffBoard :
             op = Call("make_move", from, to, 0, 0, 0, 0, 0)
       \/ \E p \in EncPairs, captured \in PieceTypes :
             op = Call("make_capture", p[1], p[2], captured, 0, 0, 0, 0)
       \/ \E p \in EncPairs, promote \in PieceTypes :
             op = Call("make_promotion", p[1], p[2], 0, promote, 0, 0, 0)
       \/ \E p \in EncPairs, t \in TypePairs :
             op = Call("make_capture_promotion", p[1], p[2], t[1], t[2], 0, 0, 0)
       \/ \E p \in EncSquares \X EncSquares, captured \in PieceTypes, promote \in PieceTypes :
             op = Call("make_capture_promotion", p[1], p[2], captured, promote, 0, 0, 0)
       \/ \E p \in EncPairs, special \in SpecialTypes :
             op = Call("make_special", p[1], p[2], 0, 0, special, 0, 0)
       \/ \E arg \in RawMoves, priority \in Priorities :
             op = Call("set_priority", 0, 0, 0, 0, 0, priority, arg)

NextEncode ==
    \/ MakeMove
    \/ MakeCapture
    \/ MakePromotion
    \/ MakeCapturePromotion
    \/ MakeSpecial
    \/ SetPriority(Priorities)

SpecEncode == InitEncode /\ [][NextEncode]_vars

(***************************************************************************)
(* One call of board_set_fen, step by step.  The initial state draws the   *)
(* text and the position the call finds; pc is the place in the call: at   *)
(* its entry ("call"), before step k + 1 of the eleven steps ("step"),     *)
(* inside the loop of step k + 1 ("loop"), or returned ("done").           *)
(***************************************************************************)
Parsing(fen) ==
    [name |-> "set_fen", pc |-> "call", k |-> 0, text |-> fen,
     parser |-> [ptr |-> 0, success |-> FALSE, rd |-> 0],
     rank |-> 0, file |-> 0, ret |-> FALSE]

\* fen.c:156-162: the test of the text, board_clear and parser_create.
SetFenEnter ==
    /\ op.pc = "call"
    /\ IF op.text = NULL
       THEN /\ op' = [op EXCEPT !.pc = "done", !.ret = FALSE]
            /\ board' = board
       ELSE /\ \E b \in {board_clear(board)} : board' = b
            /\ op' = [op EXCEPT !.pc = "step", !.parser = parser_create(op.text)]
    /\ UNCHANGED lastKing

\* fen.c:261-266: the entry of parse_piece_placement.
PlacementEnter ==
    /\ op.pc = "step" /\ op.k = 0
    /\ op' = IF ~op.parser.success THEN [op EXCEPT !.k = 1]
             ELSE [op EXCEPT !.pc = "loop",
                             !.rank = BOARD_HEIGHT_PHYSICAL - 1, !.file = 0]
    /\ UNCHANGED <<board, lastKing>>

\* fen.c:268-304: one test of the loop condition with one run of the body,
\* or the assignment after the loop.
PlacementIter ==
    /\ op.pc = "loop" /\ op.k = 0
    /\ \E s \in {placement_step([board |-> board, parser |-> op.parser,
                                 rank |-> op.rank, file |-> op.file,
                                 pc |-> "loop"], op.text)} :
          /\ board' = s.board
          /\ op' = IF s.pc = "loop"
                   THEN [op EXCEPT !.parser = s.parser, !.rank = s.rank,
                                   !.file = s.file]
                   ELSE IF s.pc = "return"
                   THEN [op EXCEPT !.parser = s.parser, !.pc = "step", !.k = 1]
                   ELSE [op EXCEPT
                           !.parser = [s.parser EXCEPT !.success =
                                         (s.rank = 0 /\ s.file = BOARD_WIDTH_PHYSICAL)],
                           !.pc = "step", !.k = 1]
    /\ UNCHANGED lastKing

\* fen.c:179-192: the five calls of parser_expect_space.
ExpectSpace ==
    /\ op.pc = "step" /\ op.k \in {1, 3, 5, 7, 9}
    /\ op' = [op EXCEPT !.parser = parser_expect_space(op.parser, op.text),
                        !.k = @ + 1]
    /\ UNCHANGED <<board, lastKing>>

\* A step without a loop: parse_side_to_move, parse_en_passant,
\* parse_halfmove_clock and parse_fullmove_number.
ParseSideToMove ==
    /\ op.pc = "step" /\ op.k = 2
    /\ \E s \in {parse_side_to_move(board, op.parser, op.text)} :
          /\ board' = s.board
          /\ op' = [op EXCEPT !.parser = s.parser, !.k = 3]
    /\ UNCHANGED lastKing

\* fen.c:325-332: the entry of parse_castling_rights.
CastlingEnter ==
    /\ op.pc = "step" /\ op.k = 4
    /\ op' = IF ~op.parser.success THEN [op EXCEPT !.k = 5]
             ELSE IF At(op.text, op.parser.ptr) = CH_DASH
             THEN [op EXCEPT !.parser.ptr = @ + 1,
                             !.parser.rd = Max(@, op.parser.ptr), !.k = 5]
             ELSE [op EXCEPT !.parser.rd = Max(@, op.parser.ptr), !.pc = "loop"]
    /\ UNCHANGED <<board, lastKing>>

\* fen.c:334-343: one test of the loop condition with one run of the body.
CastlingIter ==
    /\ op.pc = "loop" /\ op.k = 4
    /\ \E s \in {castling_step([board |-> board, parser |-> op.parser,
                                pc |-> "loop"], op.text)} :
          /\ board' = s.board
          /\ op' = IF s.pc = "loop" THEN [op EXCEPT !.parser = s.parser]
                   ELSE [op EXCEPT !.parser = s.parser, !.pc = "step", !.k = 5]
    /\ UNCHANGED lastKing

ParseEnPassant ==
    /\ op.pc = "step" /\ op.k = 6
    /\ \E s \in {parse_en_passant(board, op.parser, op.text)} :
          /\ board' = s.board
          /\ op' = [op EXCEPT !.parser = s.parser, !.k = 7]
    /\ UNCHANGED lastKing

ParseHalfmoveClock ==
    /\ op.pc = "step" /\ op.k = 8
    /\ \E s \in {parse_halfmove_clock(board, op.parser, op.text)} :
          /\ board' = s.board
          /\ op' = [op EXCEPT !.parser = s.parser, !.k = 9]
    /\ UNCHANGED lastKing

ParseFullmoveNumber ==
    /\ op.pc = "step" /\ op.k = 10
    /\ \E s \in {parse_fullmove_number(board, op.parser, op.text)} :
          /\ board' = s.board
          /\ op' = [op EXCEPT !.parser = s.parser, !.k = 11]
    /\ UNCHANGED lastKing

\* fen.c:195: return parser.success.
SetFenReturn ==
    /\ op.pc = "step" /\ op.k = 11
    /\ op' = [op EXCEPT !.pc = "done", !.ret = op.parser.success]
    /\ UNCHANGED <<board, lastKing>>

InitParse ==
    /\ board \in {board_init(NoCall), UsedPosition}
    /\ lastKing = <<Untracked, Untracked>>
    /\ \E fen \in FenTexts : op = Parsing(fen)

NextParse ==
    \/ SetFenEnter
    \/ PlacementEnter
    \/ PlacementIter
    \/ ExpectSpace
    \/ ParseSideToMove
    \/ CastlingEnter
    \/ CastlingIter
    \/ ParseEnPassant
    \/ ParseHalfmoveClock
    \/ ParseFullmoveNumber
    \/ SetFenReturn

\* A call that has begun runs on: nothing but the call itself takes steps.
SpecParse == InitParse /\ [][NextParse]_vars /\ WF_vars(NextParse)

(***************************************************************************)
(* Properties.  The predicates below are written from the statements they  *)
(* check and share nothing with the operators above.                       *)
(***************************************************************************)
\* The positions of character c in text T, and the k-th of them.
Positions(T, c) == {i \in 1..Len(T) : T[i] = c}
Nth(P, k) == CHOOSE i \in P : Cardinality({j \in P : j < i}) = k - 1

\* Piece k of T when T is cut at every occurrence of c.
Piece(T, c, k) ==
    LET P == Positions(T, c)
        n == Cardinality(P)
        lo == IF k = 1 THEN 1 ELSE Nth(P, k - 1) + 1
        hi == IF k = n + 1 THEN Len(T) ELSE Nth(P, k) - 1
    IN  SubSeq(T, lo, hi)

IsDigit(c) == c \in 48..57

\* The cleared state: 64 empty squares, white to move, no castling rights,
\* no en-passant square, halfmove 0, fullmove 1.
Cleared(b) ==
    /\ \A rank \in 0..7, file \in 0..7 : b.squares[16 * rank + file + 1] = 0
    /\ b.side_to_move = 0
    /\ b.castling_rights = 0
    /\ b.en_passant_square = 255
    /\ b.halfmove_clock = 0
    /\ b.fullmove_number = 1

\* C1: whenever board_set_fen returns false, for a null text as for a text
\* that fails early or late, the position afterwards is the cleared state.
C1_FailedReadLeavesCleared ==
    (op.name = "set_fen" /\ ~op.ret) => Cleared(board)

\* The value of a run of decimal digits of at most five characters.
DecVal(F) ==
    LET d(i) == IF i <= Len(F) THEN F[Len(F) + 1 - i] - 48 ELSE 0
    IN  d(1) + 10 * d(2) + 100 * d(3) + 1000 * d(4) + 10000 * d(5)

CanonicalCounter(F) ==
    /\ Len(F) \in 1..5
    /\ \A i \in 1..Len(F) : IsDigit(F[i])
    /\ (Len(F) > 1 => F[1] # 48)
    /\ DecVal(F) <= 65535

\* K, Q, k, q in this order, without repeats.
CastlingOrder(c) == IF c = 75 THEN 1 ELSE IF c = 81 THEN 2
                    ELSE IF c = 107 THEN 3 ELSE IF c = 113 THEN 4 ELSE 0

CanonicalCastling(F) ==
    \/ F = <<45>>
    \/ /\ Len(F) >= 1
       /\ \A i \in 1..Len(F) : CastlingOrder(F[i]) > 0
       /\ \A i \in 1..(Len(F) - 1) : CastlingOrder(F[i]) < CastlingOrder(F[i + 1])

\* Six fields, one space between two of them, each field in canonical form.
Canonical(T) ==
    /\ Cardinality(Positions(T, 32)) = 5
    /\ \A k \in 1..6 : Len(Piece(T, 32, k)) > 0
    /\ LET F == Piece(T, 32, 1)
       IN  \A i \in 1..(Len(F) - 1) : ~(IsDigit(F[i]) /\ IsDigit(F[i + 1]))
    /\ CanonicalCastling(Piece(T, 32, 3))
    /\ (Piece(T, 32, 4) = <<45>> \/ Len(Piece(T, 32, 4)) = 2)
    /\ CanonicalCounter(Piece(T, 32, 5))
    /\ CanonicalCounter(Piece(T, 32, 6))

\* The text a buffer holds: its bytes before the first terminator.
TextOf(buf) ==
    IF \E i \in 1..Len(buf) : buf[i] = 0
    THEN SubSeq(buf, 1, (CHOOSE i \in 1..Len(buf) :
                           buf[i] = 0 /\ \A j \in 1..(i - 1) : buf[j] # 0) - 1)
    ELSE buf

\* C2: a position read from an accepted text in canonical form and written
\* into a buffer of 100 bytes gives back the text it was read from.
C2_ReadThenWriteRoundTrip ==
    (op.name = "get_fen" /\ op.len = 100 /\ op.buf0 # NULL /\ op.from # NULL
       /\ Canonical(op.from))
    => TextOf(op.buf) = op.from

\* C3: board_get_fen with a buffer and a length below 24 leaves the empty
\* string in the buffer, whatever the buffer held.
C3_ShortBufferLeftEmpty ==
    (op.name = "get_fen" /\ op.buf0 # NULL /\ op.len >= 1 /\ op.len < 24)
    => op.buf[1] = 0

\* The promotion field of a move: bits 16 to 18.
HasPromotion(move) == (move \div 65536) % 8 # 0

\* C4: move_to_string returns false when the length is below 5 for a move
\* without promotion and below 6 for a move with one.
C4_SmallBufferRefused ==
    (op.name = "move_to_string"
       /\ \/ ~HasPromotion(op.move) /\ op.len < 5
          \/ HasPromotion(op.move) /\ op.len < 6)
    => ~op.ret

\* What a move text names on position b: the content of its source square
\* and the rank index of its destination.
SourcePiece(T, b) == b.squares[16 * (T[2] - 49) + (T[1] - 97) + 1]
IsFile(c) == c \in 97..104
IsRank(c) == c \in 49..56

\* The reasons for which a move text is rejected.
Rejected(T, b, nullpos) ==
    \/ T = NULL
    \/ nullpos
    \/ Len(T) \notin {4, 5}
    \/ ~IsFile(T[1]) \/ ~IsRank(T[2]) \/ ~IsFile(T[3]) \/ ~IsRank(T[4])
    \/ SourcePiece(T, b) = 0
    \/ /\ Len(T) = 5
       /\ \/ T[5] \notin {110, 98, 114, 113, 78, 66, 82, 81}
          \/ SourcePiece(T, b) % 8 # 1
          \/ ~ \/ SourcePiece(T, b) < 128 /\ T[4] = 56
               \/ SourcePiece(T, b) >= 128 /\ T[4] = 49

\* C5: string_to_move returns zero exactly when the text is rejected; every
\* accepted text gives a move that is not zero, a1a1 included.
C5_ZeroExactlyWhenRejected ==
    op.name = "string_to_move"
    => (op.move = 0 <=> Rejected(op.text, board, op.nullpos))

\* a1a1 was parsed on a position with a piece on a1 and gave a move.
C5_Witness ==
    /\ op.name = "string_to_move"
    /\ op.text = STR_A1A1
    /\ ~op.nullpos
    /\ op.move # 0
    /\ get_from_square(op.move) = 0
    /\ get_to_square(op.move) = 0

\* C6: once a king of side s was placed since the last clear, the square
\* cached for s holds a king of side s, also after that square was
\* overwritten.  (Side s is 1 for white, 2 for black.)
C6_KingCacheNeverStale ==
    \A s \in {1, 2} :
        lastKing[s] >= 0
        => board.squares[board.king_square[s] + 1] = (IF s = 1 THEN 6 ELSE 134)

\* C7: after a clear, the square cached for side s is the square of the last
\* king of colour s placed on a valid square, and the cleared value 0 while
\* none was placed: no other placement changes it.
C7_KingCacheIsLastKingPlaced ==
    \A s \in {1, 2} :
        /\ lastKing[s] >= 0 => board.king_square[s] = lastKing[s]
        /\ lastKing[s] = NoKing => board.king_square[s] = 0

\* Both kings were placed, the white one last on e8 and the black one last
\* on e1, and then a pawn was placed on a square off the board.
C7_Witness ==
    /\ lastKing = <<116, 4>>
    /\ op.name = "set_piece"
    /\ op.piece = 1
    /\ op.sq = 8

\* The files a rank of the placement field fills: a digit its value, any
\* other character one.
RECURSIVE RankFiles(_, _)
RankFiles(F, n) ==
    IF n = 0 THEN 0
    ELSE RankFiles(F, n - 1) + (IF IsDigit(F[n]) THEN F[n] - 48 ELSE 1)

\* Exactly 8 ranks, each of exactly 8 files.
PlacementWellFormed(T) ==
    LET F == Piece(T, 32, 1)
    IN  /\ Cardinality(Positions(F, 47)) = 7
        /\ \A k \in 1..8 : RankFiles(Piece(F, 47, k), Len(Piece(F, 47, k))) = 8

\* C8: board_set_fen returns true only for a placement field of exactly 8
\* ranks of exactly 8 files each, whatever the length of the field.
C8_AcceptedPlacementWellFormed ==
    (op.name = "set_fen" /\ op.ret) => PlacementWellFormed(op.text)

\* No field is missing or empty and no field has more than one space before
\* it: five spaces at least, none leading, no two adjacent.
FieldsSingleSpaced(T) ==
    /\ Cardinality(Positions(T, 32)) >= 5
    /\ Len(T) > 0 /\ T[1] # 32
    /\ \A i \in 1..(Len(T) - 1) : ~(T[i] = 32 /\ T[i + 1] = 32)

\* C9: board_set_fen returns false for every text whose six fields are not
\* all present and separated by exactly one space each.
C9_FieldSeparationEnforced ==
    (op.name = "set_fen" /\ op.text # NULL /\ ~FieldsSingleSpaced(op.text))
    => ~op.ret

\* C10: after a successful board_set_fen the en-passant square is none or
\* lies on rank index 2 or 5.
C10_EnPassantRank ==
    (op.name = "set_fen" /\ op.ret)
    => \/ board.en_passant_square = 255
       \/ board.en_passant_square \div 16 \in {2, 5}

\* The position written was read from a text in canonical form with a
\* well-formed placement: that text is the complete text of the position.
WrittenFromText ==
    /\ op.name = "get_fen" /\ op.buf0 # NULL /\ op.from # NULL
    /\ Canonical(op.from) /\ PlacementWellFormed(op.from)

\* The buffer holds the empty string, then the first p characters of text T
\* less the first, then what it held before (bytes 120).
EmptiedAfter(buf, T, p) ==
    /\ buf[1] = 0
    /\ \A i \in 2..Len(buf) : buf[i] = (IF i <= p THEN T[i] ELSE 120)

\* C11: board_get_fen with len >= 24 leaves the complete text or, when the
\* buffer is exhausted in any step, the empty string: the steps after the
\* failing one store nothing, no byte outside the buffer is stored to, and no
\* truncated text is left.
C11_ExhaustedBufferLeftEmpty ==
    (WrittenFromText /\ op.len >= 24)
    => /\ op.hi < op.len
       /\ Len(op.buf) = op.len
       /\ \/ /\ TextOf(op.buf) = op.from
             /\ \A i \in (Len(op.from) + 2)..op.len : op.buf[i] = 120
          \/ \E p \in 1..Len(op.from) : EmptiedAfter(op.buf, op.from, p)

\* In the castling step of the standard start text the buffer of 47 bytes
\* was exhausted: 46 characters had been written and the result is empty.
C11_Witness ==
    /\ WrittenFromText
    /\ op.from = INITIAL_FEN
    /\ op.len = 47
    /\ op.hi = 45
    /\ op.buf[1] = 0
    /\ op.buf[46] = 32

\* C12: for all from and to squares, make_special with the en-passant kind
\* returns a move whose captured type is pawn, whose priority is capture and
\* whose special tag is en-passant; with a castle kind the captured type is
\* none and the priority is normal.
C12_SpecialMoveFields ==
    (op.name = "make_special" /\ op.done)
    => /\ (op.special = 1)
          => /\ (op.move \div 524288) % 8 = 1
             /\ (op.move \div 16384) % 4 = 2
             /\ (op.move \div 4194304) % 4 = 1
       /\ (op.special \in {2, 3})
          => /\ (op.move \div 524288) % 8 = 0
             /\ (op.move \div 16384) % 4 = 0

\* C13: for every 24-bit move m and every priority p, set_priority(m, p)
\* has priority p and the same from square, to square, captured type,
\* promotion type and special tag as m: only bits 14 and 15 differ.
C13_SetPriorityChangesOnlyPriority ==
    (op.name = "set_priority" /\ op.done)
    => /\ op.move \in 0..16777215
       /\ (op.move \div 16384) % 4 = op.priority
       /\ op.move % 16384 = op.arg % 16384
       /\ op.move \div 65536 = op.arg \div 65536

\* The priority of the move with all 24 bits set was lowered to normal, and
\* the priority of an en-passant move was changed from capture to killer.
C13_Witness ==
    /\ op.name = "set_priority" /\ op.done
    /\ \/ (op.arg = 16777215 /\ op.priority = 0 /\ op.move = 16728063)
       \/ (op.special = 1 /\ (op.arg \div 16384) % 4 = 2 /\ op.priority = 1)

\* A square of the board in the 0x88 layout.
OnBoard(sq) == sq \in 0..127 /\ sq % 16 < 8

\* C14: for valid from and to squares and every piece type, the move that
\* make_move, make_capture, make_promotion or make_capture_promotion returns
\* reads back the supplied from, to, captured and promotion types; a field
\* its constructor does not take reads none; the priority is capture for
\* the two capture constructors and normal for the other two.
C14_ConstructorFieldsDisjoint ==
    (/\ op.done
     /\ op.name \in {"make_move", "make_capture", "make_promotion",
                     "make_capture_promotion"}
     /\ OnBoard(op.from) /\ OnBoard(op.to))
    => /\ op.move % 128 = op.from
       /\ (op.move \div 128) % 128 = op.to
       /\ (op.move \div 524288) % 8
             = (IF op.name \in {"make_capture", "make_capture_promotion"}
                THEN op.captured ELSE 0)
       /\ (op.move \div 65536) % 8
             = (IF op.name \in {"make_promotion", "make_capture_promotion"}
                THEN op.promote ELSE 0)
       /\ op.move \div 4194304 = 0
       /\ (op.move \div 16384) % 4
             = (IF op.name \in {"make_capture", "make_capture_promotion"}
                THEN 2 ELSE 0)

\* A pawn captured on h8 by a pawn from e4 that becomes a queen.
C14_Witness ==
    /\ op.done /\ op.name = "make_capture_promotion"
    /\ op.from = 52 /\ op.to = 119 /\ op.captured = 1 /\ op.promote = 5
    /\ op.move = 900020

\* The values of a square that are not squares of the board.
InvalidSquares == {sq \in 0..255 : ~OnBoard(sq)}

\* C15: board_set_piece on an invalid square (255 included) changes nothing,
\* the king cache included; on a valid square it changes that square only
\* (board_get_piece returns the piece, board_is_empty holds exactly for the
\* piece none) and, for a king, the cached square of the king's colour;
\* board_get_piece returns none for every invalid square.
C15_SetPieceFrame ==
    /\ [][op'.name = "set_piece"
          => IF OnBoard(op'.sq)
                THEN /\ board'.squares = [board.squares EXCEPT ![op'.sq + 1] = op'.piece]
                     /\ board_get_piece(board', op'.sq) = op'.piece
                     /\ board_is_empty(board', op'.sq) <=> (op'.piece = 0)
                     /\ board'.king_square
                           = (IF op'.piece % 8 = 6
                              THEN [board.king_square
                                       EXCEPT ![(op'.piece \div 128) + 1] = op'.sq]
                              ELSE board.king_square)
                     /\ board'.side_to_move = board.side_to_move
                     /\ board'.castling_rights = board.castling_rights
                     /\ board'.en_passant_square = board.en_passant_square
                     /\ board'.halfmove_clock = board.halfmove_clock
                     /\ board'.fullmove_number = board.fullmove_number
                ELSE board' = board]_vars
    /\ [](\A sq \in InvalidSquares :
             /\ board_get_piece(board, sq) = 0
             /\ board_is_empty(board, sq))

\* A white king was placed on e8 and then one on square 255: the cached
\* square is still e8 and the slot 127 is empty.
C15_Witness ==
    /\ op.name = "set_piece" /\ op.sq = 255 /\ op.piece = 6
    /\ lastKing[1] = 116
    /\ board.king_square[1] = 116
    /\ board.squares[128] = 0

\* The squares a move text names, the piece on the destination, and the
\* piece type a promotion letter names.
FromSquare(T) == 16 * (T[2] - 49) + (T[1] - 97)
ToSquare(T) == 16 * (T[4] - 49) + (T[3] - 97)
DestPiece(T, b) == b.squares[ToSquare(T) + 1]
PromotionNamed(c) ==
    CASE c \in {110, 78} -> 2
      [] c \in {98, 66}  -> 3
      [] c \in {114, 82} -> 4
      [] c \in {113, 81} -> 5
      [] OTHER           -> 0

\* The two upgrades to a special move: a king moving two files, a pawn moving
\* to the en-passant target.
KingTwoFiles(T, b) ==
    SourcePiece(T, b) % 8 = 6 /\ (T[3] - T[1]) \in {2, 0 - 2}
PawnToTarget(T, b) ==
    SourcePiece(T, b) % 8 = 1 /\ ToSquare(T) = b.en_passant_square

\* A text was accepted on the position of the state.
Accepted ==
    /\ op.name = "string_to_move"
    /\ ~Rejected(op.text, board, op.nullpos)

\* C16: for an accepted text with no special upgrade, from and to are the
\* squares named; the captured type is the type of the piece on the
\* destination and the priority capture when it is occupied, none and normal
\* when it is empty; the promotion is the piece named by the fifth character
\* in either case of the letter, none for four characters; a capture is
\* kept next to a promotion; the special tag is none.
C16_PlainMoveFields ==
    (Accepted /\ ~KingTwoFiles(op.text, board) /\ ~PawnToTarget(op.text, board))
    => /\ op.move % 128 = FromSquare(op.text)
       /\ (op.move \div 128) % 128 = ToSquare(op.text)
       /\ (op.move \div 524288) % 8 = DestPiece(op.text, board) % 8
       /\ (op.move \div 16384) % 4
             = (IF DestPiece(op.text, board) # 0 THEN 2 ELSE 0)
       /\ (op.move \div 65536) % 8
             = (IF Len(op.text) = 5 THEN PromotionNamed(op.text[5]) ELSE 0)
       /\ op.move \div 4194304 = 0

\* b7a8n: the white pawn on b7 captured the rook on a8 and became a knight.
C16_Witness ==
    /\ Accepted
    /\ op.text = STR_B7A8N
    /\ SourcePiece(op.text, board) = 1
    /\ DestPiece(op.text, board) = 132
    /\ op.move = 2275425

\* C17: for every accepted text, a king moving two files gives a castle,
\* king side for +2 and queen side for -2, with captured none, promotion
\* none and priority normal, also onto an occupied square; a pawn moving to
\* the en-passant target gives an en-passant move with captured pawn,
\* priority capture and promotion none; every other move has the special tag
\* none; with the target at none no move is tagged en-passant.
C17_SpecialUpgrades ==
    Accepted
    => /\ IF KingTwoFiles(op.text, board)
          THEN /\ op.move \div 4194304
                     = (IF op.text[3] - op.text[1] = 2 THEN 2 ELSE 3)
               /\ (op.move \div 524288) % 8 = 0
               /\ (op.move \div 65536) % 8 = 0
               /\ (op.move \div 16384) % 4 = 0
          ELSE IF PawnToTarget(op.text, board)
               THEN /\ op.move \div 4194304 = 1
                    /\ (op.move \div 524288) % 8 = 1
                    /\ (op.move \div 65536) % 8 = 0
                    /\ (op.move \div 16384) % 4 = 2
               ELSE op.move \div 4194304 = 0
       /\ board.en_passant_square = 255 => op.move \div 4194304 # 1
       /\ op.move % 128 = FromSquare(op.text)
       /\ (op.move \div 128) % 128 = ToSquare(op.text)

\* b7a8n with the en-passant target on a8: the pawn took en passant, the
\* rook on a8 and the knight asked for are not in the move.
C17_Witness ==
    /\ Accepted
    /\ op.text = STR_B7A8N
    /\ board.en_passant_square = 112
    /\ DestPiece(op.text, board) = 132
    /\ op.move \div 4194304 = 1

\* The text of a move with squares of the board: file letter and rank digit
\* of the source, of the destination, and the letter of the promotion.
MoveText(move) ==
    LET from  == move % 128
        to    == (move \div 128) % 128
        promo == (move \div 65536) % 8
    IN  <<97 + (from % 16), 49 + (from \div 16), 97 + (to % 16), 49 + (to \div 16)>>
           \o (CASE promo = 2 -> <<110>>
                 [] promo = 3 -> <<98>>
                 [] promo = 4 -> <<114>>
                 [] promo = 5 -> <<113>>
                 [] OTHER     -> << >>)

\* C18: move_to_string returns false for the zero move and for every move
\* with an invalid from or to square; for a move that is not zero, with valid
\* squares and promotion none, knight, bishop, rook or queen, and a buffer of
\* 6 bytes, it returns true and the buffer holds the four characters of the
\* squares, the lower-case promotion letter if any, and the terminator.
C18_MoveToStringText ==
    op.name = "move_to_string"
    => /\ (\/ op.move = 0
           \/ ~OnBoard(op.move % 128)
           \/ ~OnBoard((op.move \div 128) % 128))
          => ~op.ret
       /\ (/\ op.move # 0
           /\ OnBoard(op.move % 128)
           /\ OnBoard((op.move \div 128) % 128)
           /\ (op.move \div 65536) % 8 \in {0, 2, 3, 4, 5}
           /\ op.len = 6 /\ op.buf0 # NULL)
          => /\ op.ret
             /\ Len(op.buf) = 6
             /\ SubSeq(op.buf, 1, Len(MoveText(op.move)) + 1)
                   = MoveText(op.move) \o <<0>>

\* b2a1b: a promotion to a bishop with a capture, written to 6 bytes.
C18_Witness ==
    /\ op.name = "move_to_string" /\ op.ret /\ op.len = 6
    /\ (op.move \div 65536) % 8 = 3
    /\ op.buf = <<98, 50, 97, 49, 98, 0>>

\* The piece on a square in the standard start: rook, knight, bishop, queen,
\* king, bishop, knight, rook on ranks 1 and 8, pawns on ranks 2 and 7,
\* black from 128.
BackRank == <<4, 2, 3, 5, 6, 3, 2, 4>>
StartPiece(file, rank) ==
    CASE rank = 0 -> BackRank[file + 1]
      [] rank = 1 -> 1
      [] rank = 6 -> 129
      [] rank = 7 -> 128 + BackRank[file + 1]
      [] OTHER    -> 0

StandardStart(b) ==
    /\ \A rank \in 0..7, file \in 0..7 :
          b.squares[16 * rank + file + 1] = StartPiece(file, rank)
    /\ Cardinality({sq \in 1..128 : b.squares[sq] # 0}) = 32
    /\ b.side_to_move = 0
    /\ b.castling_rights = 15
    /\ b.en_passant_square = 255
    /\ b.halfmove_clock = 0
    /\ b.fullmove_number = 1
    /\ b.king_square = <<4, 116>>

\* C19: from any prior state board_reset leaves the standard start: the 32
\* pieces on their squares and nothing else, white to move, all four
\* castling rights, en-passant none, halfmove 0, fullmove 1, the kings
\* cached on e1 and e8; board_set_fen of the standard start text succeeds.
C19_ResetGivesStandardStart ==
    /\ op.name = "reset" => StandardStart(board)
    /\ (op.name = "set_fen" /\ op.text = INITIAL_FEN)
          => (op.ret /\ StandardStart(board))

\* After a reset the white king stands on e1 and the black king on e8, and
\* both are cached.
C19_Witness ==
    /\ op.name = "reset"
    /\ board.squares[117] = 134
    /\ board.squares[5] = 6
    /\ board.king_square = <<4, 116>>

\* C20: from any prior state board_clear leaves every square empty, white
\* to move, no castling rights (board_has_castling_rights is true for the
\* empty mask only), en-passant none, halfmove 0 and fullmove 1; clearing
\* again leaves exactly the same state.
C20_ClearGivesEmptyPosition ==
    op.name = "clear"
    => /\ Cleared(board)
       /\ \A sq \in 1..128 : board.squares[sq] = 0
       /\ \A rights \in 0..15 :
             board_has_castling_rights(board, rights) <=> (rights = 0)
       /\ board_clear(board) = board

\* Cleared: no piece, no rights, and no king cached.
C20_Witness ==
    /\ op.name = "clear"
    /\ board.castling_rights = 0
    /\ board.king_square = <<0, 0>>
    /\ lastKing = <<NoKing, NoKing>>

\* C21: for every position and every len, board_get_fen stores to no byte
\* at index len or beyond, the terminator included, and the buffer keeps
\* its length; with a null buffer or len below 24 nothing is stored at all.
C21_GetFenStaysInsideBuffer ==
    op.name = "get_fen"
    => /\ op.hi < op.len
       /\ op.buf0 # NULL => Len(op.buf) = op.len
       /\ op.buf0 = NULL => (op.hi = 0 - 1 /\ op.buf = NULL)
       /\ op.len < 24 => op.hi = 0 - 1

\* A buffer of 30 bytes was filled up to index 28 with the start of a longer
\* text, the write of the next character was refused, and the result is the
\* empty string.
C21_Witness ==
    /\ op.name = "get_fen" /\ op.buf0 # NULL
    /\ op.len = 30
    /\ op.hi = 28
    /\ op.buf[1] = 0
    /\ op.buf[29] # 120
    /\ op.buf[30] = 120

\* C22: for every move and every buffer length, move_to_string stores to no
\* byte at index length or beyond, the terminator included.
C22_MoveToStringStaysInsideBuffer ==
    op.name = "move_to_string" => op.hi < op.len

\* The fields of the steps that come after step k + 1 hold the values of a
\* cleared position (the side is set by step 3, the castling rights by step
\* 5, the en-passant square by step 7, the counters by steps 9 and 11).
LaterFieldsCleared(b, k) ==
    /\ k < 2 => b.side_to_move = 0
    /\ k < 4 => b.castling_rights = 0
    /\ k < 6 => b.en_passant_square = 255
    /\ k < 8 => b.halfmove_clock = 0
    /\ k < 10 => b.fullmove_number = 1

\* C23: during one board_set_fen call, once the success flag is false it
\* stays false, the cursor stands still and no step changes the position;
\* when the flag falls, the fields of the steps after the failing one hold
\* their cleared values; and the call returns false.
C23_StickyFailure ==
    /\ [][(op.pc \in {"step", "loop"} /\ ~op.parser.success)
            => /\ ~op'.parser.success
               /\ op'.parser.ptr = op.parser.ptr
               /\ board' = board]_vars
    /\ [][(op.pc \in {"step", "loop"} /\ op.parser.success /\ ~op'.parser.success)
            => LaterFieldsCleared(board', op.k)]_vars
    /\ []((op.pc = "done" /\ ~op.parser.success) => ~op.ret)

\* The side field of the text was refused: the call returned false with
\* the 32 pieces placed and no castling rights, although the text has four.
C23_Witness ==
    /\ op.pc = "done" /\ op.text = FEN_BAD_SIDE
    /\ ~op.ret
    /\ op.parser.ptr = 45
    /\ board.squares[5] = 6
    /\ board.castling_rights = 0

\* Two positions agree on the 64 squares of the board and on the five
\* fields a position text carries.
SamePosition(a, b) ==
    /\ \A rank \in 0..7, file \in 0..7 :
          a.squares[16 * rank + file + 1] = b.squares[16 * rank + file + 1]
    /\ a.side_to_move = b.side_to_move
    /\ a.castling_rights = b.castling_rights
    /\ a.en_passant_square = b.en_passant_square
    /\ a.halfmove_clock = b.halfmove_clock
    /\ a.fullmove_number = b.fullmove_number

\* board_get_fen has written into a buffer of 100 bytes.
WrittenTo100 == op.name = "get_fen" /\ op.buf0 # NULL /\ op.len = 100

\* C24: for every position set up by board_set_piece with valid pieces and
\* by successful board_set_fen calls, board_get_fen into 100 bytes gives a
\* text that is not empty, board_set_fen accepts that text, and the position
\* it leaves has the same 64 squares, side, castling rights, en-passant
\* square, halfmove clock and fullmove number.
C24_WriteThenReadRoundTrip ==
    /\ [](WrittenTo100 => (op.buf[1] # 0 /\ \E i \in 2..100 : op.buf[i] = 0))
    /\ [][(WrittenTo100 /\ op'.name = "set_fen" /\ op'.buf0 = op.buf)
            => /\ op'.text = TextOf(op.buf)
               /\ op'.ret
               /\ SamePosition(board, board')]_vars

\* The text of 93 characters, a piece on every square and both counters at
\* 65535, was written into 100 bytes and read back.
C24_Witness ==
    /\ op.name = "set_fen" /\ op.ret
    /\ Len(op.buf0) = 100
    /\ op.text = FEN_FULL
    /\ board.halfmove_clock = 65535
    /\ board.en_passant_square = 36
    /\ board.squares[113] = 130

\* C25: board_set_fen returns true only if the text ends right after the
\* fullmove number: when the call returns true the cursor, which the last
\* step left behind the number, stands on the terminator.
C25_NothingAfterFullmove ==
    (op.pc = "done" /\ op.ret) => op.parser.ptr = Len(op.text) + 1

\* C26: board_set_fen returns on every text and reads it in one forward
\* pass: the cursor never moves back, each round of the placement and the
\* castling loop that stays in the loop moves it by one character, and no
\* character behind the terminator is read, the second character of the
\* en-passant field included.
C26_SinglePassAndTermination ==
    /\ [][op'.parser.ptr >= op.parser.ptr]_vars
    /\ [][(op.pc = "loop" /\ op'.pc = "loop")
            => op'.parser.ptr = op.parser.ptr + 1]_vars
    /\ [](op.text # NULL
            => (op.parser.rd <= Len(op.text) + 1
                /\ op.parser.ptr <= Len(op.text) + 1))
    /\ <>(op.pc = "done")

\* The text ended behind the file letter of the en-passant field: the
\* look-ahead read the terminator and nothing behind it, and the call
\* returned false.
C26_Witness ==
    /\ op.pc = "done" /\ ~op.ret
    /\ op.text = FEN_EP_CUT
    /\ op.k = 11
    /\ op.parser.rd = Len(op.text) + 1
    /\ op.parser.ptr = Len(op.text)

\* C27: board_get_fen leaves the complete text whenever len is at least 24
\* and at least the length of the position's text plus the terminator: the
\* call fails only when the text does not fit the buffer.
C27_SucceedsWheneverTextFits ==
    (WrittenFromText /\ op.len >= 24 /\ op.len >= Len(op.from) + 1)
    => /\ op.buf[1] # 0
       /\ TextOf(op.buf) = op.from

\* The integer a counter field writes: decimal digits behind an optional sign.
WrittenValue(F) ==
    IF Len(F) > 0 /\ F[1] = 45 THEN 0 - DecVal(Tail(F))
    ELSE IF Len(F) > 0 /\ F[1] = 43 THEN DecVal(Tail(F))
    ELSE DecVal(F)

\* board_set_fen has accepted a text of six fields with single spaces.
AcceptedSixFields ==
    /\ op.name = "set_fen" /\ op.ret
    /\ Cardinality(Positions(op.text, 32)) = 5
    /\ \A k \in 1..6 : Len(Piece(op.text, 32, k)) > 0

\* C28: for every text board_set_fen accepts, halfmove_clock and
\* fullmove_number equal the integers written in the fifth and the sixth
\* field: no accepted value is reduced modulo 2^16 and no counter written
\* with a minus sign is stored as a large positive value.
C28_CountersEqualWrittenValues ==
    AcceptedSixFields
    => /\ board.halfmove_clock = WrittenValue(Piece(op.text, 32, 5))
       /\ board.fullmove_number = WrittenValue(Piece(op.text, 32, 6))

\* C29: whenever move_to_string returns false, for every move value (those
\* whose promotion field is pawn, king or 7 included) and every buffer
\* length, no byte of the caller's buffer has been modified.
C29_FailureLeavesBufferUntouched ==
    (op.name = "move_to_string" /\ ~op.ret)
    => /\ op.buf = op.buf0
       /\ op.hi = 0 - 1

\* A move text with its promotion letter, if it has one, in lower case.
LowerPromotion(s) ==
    IF Len(s) >= 5 /\ s[5] \in 65..90 THEN [s EXCEPT ![5] = @ + 32] ELSE s

\* move_to_string has been applied to the move string_to_move returned.
WrittenFromMoveText == op.name = "move_to_string" /\ op.text # << >>

\* C30: for every position and every text s that string_to_move accepts on
\* it, move_to_string of the returned move into a buffer of 6 bytes returns
\* true and leaves s with its promotion letter in lower case, also when the
\* destination is the en-passant target or the move is a castle.
C30_MoveTextRoundTrip ==
    WrittenFromMoveText
    => /\ op.ret
       /\ TextOf(op.buf) = LowerPromotion(op.text)

=============================================================================
